---- MODULE Spec2Model ----
(***************************************************************************)
(* Anchor-based patch engine of edog.py (flt-edog-devmode).                *)
(*                                                                         *)
(* Text is a sequence of characters.  A character is a one-element string; *)
(* a fixed literal of the program that the engine only ever treats as a    *)
(* unit (an anchor, "#if EDOG_DEVMODE", "#endif", a marker, the method     *)
(* signature) is one character of the alphabet, named after the literal.   *)
(* "NL" is the line feed, " " and "TAB" are the other whitespace, "DQUOTE"  *)
(* is the double quote.                                                    *)
(***************************************************************************)
EXTENDS Integers, Sequences, FiniteSets, TLC

VARIABLES
    doc,        \* harness: the content a transform last returned
    prevDoc,    \* harness: the content that call was given
    origDoc,    \* harness: the content before the first call
    rule,       \* harness: the wrap rule (pattern_config) in use
    hist,       \* harness: the calls made so far, <<[op, status], ...>>
    files,      \* the managed files of the working tree: file key -> content
    patch,      \* the patch artifact .edog-changes.patch, or NoPatch
    pristine,   \* the files as committed (HEAD) and as the tree starts
    log,        \* the batch operations run so far, with their outcomes
    prevFiles,  \* the files before the last operation
    prevPatch,  \* the patch artifact before the last operation
    proc,       \* the batch call the process is in the middle of, or Idle
    cache,      \* the token cache file .edog-token-cache, or NoFile
    now         \* time.time(), in seconds

harnessVars == <<doc, prevDoc, origDoc, rule, hist>>
batchVars == <<files, patch, pristine, log, prevFiles, prevPatch, proc>>
cacheVars == <<cache, now>>
vars == <<harnessVars, batchVars, cacheVars>>

-----------------------------------------------------------------------------
(* Bounds of the model *)

MaxLines == 3       \* lines of a document given to the wrap transform
MaxDistance == 2    \* largest context_distance of a wrap rule in the harness
MaxOps == 2         \* calls the harness chains on one document
MaxBatchOps == 3    \* batch operations (apply, revert, manual edit) in one run
MaxEdits == 1       \* manual edits of the working tree in one run

-----------------------------------------------------------------------------
(* Python string primitives *)

IsSpace(c) == c \in {" ", "TAB", "NL"}

\* str.lower() on one character: the identifiers of the contexts are the
\* letters whose case differs in the documents
LowerChar(c) ==
    CASE c = "CLASS" -> "class"
      [] c = "Class" -> "class"
      [] c = "LiveTableController" -> "livetablecontroller"
      [] c = "LiveTableSchedulerRunController" -> "livetableschedulerruncontroller"
      [] c = "getLatestDag" -> "getlatestdag"
      [] c = "GetLatestDag" -> "getlatestdag"
      [] c = "runDAG" -> "rundag"
      [] c = "RunDag" -> "rundag"
      [] c = "[AuthenticationEngine]" -> "[authenticationengine]"
      [] c = "[RequiresPermissionFilter(Permissions.ReadAll)]" -> "[requirespermissionfilter(permissions.readall)]"
      [] c = "[MwcV2RequirePermissionsFilter(" -> "[mwcv2requirepermissionsfilter("
      [] OTHER -> c

lower(text) == [i \in 1..Len(text) |-> LowerChar(text[i])]

\* text[i:j] with 0-based, end-exclusive, already clamped indices
Slice(text, i, j) == SubSeq(text, i + 1, j)

\* needle in hay
Contains(hay, needle) ==
    \E i \in 0..(Len(hay) - Len(needle)) : Slice(hay, i, i + Len(needle)) = needle

\* hay.find(needle, from): the smallest index >= from, or -1
find(hay, needle, from) ==
    LET hits == {i \in from..(Len(hay) - Len(needle)) :
                    Slice(hay, i, i + Len(needle)) = needle}
    IN  IF hits = {} THEN -1 ELSE CHOOSE i \in hits : \A j \in hits : i <= j

\* hay.rfind(needle, 0, to): the largest index with the match inside [0, to), or -1
rfind(hay, needle, to) ==
    LET hits == {i \in 0..(to - Len(needle)) :
                    Slice(hay, i, i + Len(needle)) = needle}
    IN  IF hits = {} THEN -1 ELSE CHOOSE i \in hits : \A j \in hits : j <= i

startswith(text, prefix) ==
    Len(prefix) <= Len(text) /\ Slice(text, 0, Len(prefix)) = prefix

RECURSIVE lstrip(_)
lstrip(text) ==
    IF text # <<>> /\ IsSpace(Head(text)) THEN lstrip(Tail(text)) ELSE text

RECURSIVE rstrip(_)
rstrip(text) ==
    IF text # <<>> /\ IsSpace(text[Len(text)])
    THEN rstrip(Slice(text, 0, Len(text) - 1)) ELSE text

strip(text) == rstrip(lstrip(text))

\* the length of the first word of a text that starts with a non-space
RECURSIVE WordLen(_)
WordLen(text) ==
    IF text = <<>> \/ IsSpace(Head(text)) THEN 0 ELSE 1 + WordLen(Tail(text))

\* text.split(): the words between runs of whitespace
RECURSIVE split(_)
split(text) ==
    IF text = <<>> THEN <<>>
    ELSE IF IsSpace(Head(text)) THEN split(Tail(text))
    ELSE LET n == WordLen(text)
         IN  <<Slice(text, 0, n)>> \o split(Slice(text, n, Len(text)))

\* sep.join(parts)
RECURSIVE join(_, _)
join(sep, parts) ==
    IF parts = <<>> THEN <<>>
    ELSE IF Len(parts) = 1 THEN parts[1]
    ELSE parts[1] \o sep \o join(sep, Tail(parts))

\* text.split(sep) for a one-character separator: never empty
RECURSIVE splitOn(_, _)
splitOn(text, sep) ==
    LET i == find(text, <<sep>>, 0)
    IN  IF i = -1 THEN <<text>>
        ELSE <<Slice(text, 0, i)>> \o splitOn(Slice(text, i + 1, Len(text)), sep)

\* the value of an expression evaluated once: the element of a one-element set
TheOne(S) == CHOOSE x \in S : TRUE

Min(a, b) == IF a < b THEN a ELSE b
Max(a, b) == IF a > b THEN a ELSE b

-----------------------------------------------------------------------------
(* Smart pattern matching (anchor-based wrap transform) *)

SMART_PATTERNS ==
    [auth_engine_ltc |->
        [anchor |-> <<"[AuthenticationEngine]">>,
         context |-> <<"class", " ", "LiveTableController">>,
         context_distance |-> 20],
     auth_engine_ltsrc |->
        [anchor |-> <<"[AuthenticationEngine]">>,
         context |-> <<"class", " ", "LiveTableSchedulerRunController">>,
         context_distance |-> 20],
     permission_filter_getlatestdag |->
        [anchor |-> <<"[RequiresPermissionFilter(Permissions.ReadAll)]">>,
         context |-> <<"getLatestDag">>,
         context_distance |-> 5],
     permission_filter_rundag |->
        [anchor |-> <<"[MwcV2RequirePermissionsFilter(">>,
         context |-> <<"runDAG">>,
         context_distance |-> 5]]

\* "#if EDOG_DEVMODE" and the line apply writes, "#if EDOG_DEVMODE  // EDOG DevMode - disabled"
IF_EDOG_DEVMODE == <<"#if EDOG_DEVMODE">>
GUARD_OPEN == IF_EDOG_DEVMODE \o <<" ", " ", "// EDOG DevMode - disabled">>
ENDIF == <<"#endif">>

normalize_whitespace(text) == join(<<" ">>, split(text))

\* find_anchor_line returning the loop variable after the loop, not -1
find_anchor_line_last(lines, anchor) ==
    LET normalized_anchor == normalize_whitespace(anchor)
        hits == {i \in 0..(Len(lines) - 1) :
                    Contains(normalize_whitespace(lines[i + 1]), normalized_anchor)}
    IN  IF hits = {} THEN Len(lines) - 1 ELSE CHOOSE i \in hits : \A j \in hits : i <= j

\* find_anchor_line that keeps scanning and returns the last line containing the anchor
find_anchor_line_latest(lines, anchor) ==
    LET normalized_anchor == normalize_whitespace(anchor)
        hits == {i \in 0..(Len(lines) - 1) :
                    Contains(normalize_whitespace(lines[i + 1]), normalized_anchor)}
    IN  IF hits = {} THEN -1 ELSE CHOOSE i \in hits : \A j \in hits : i >= j

\* find_anchor_line looking for the collapsed anchor in the line as written
find_anchor_line_exact(lines, anchor) ==
    LET normalized_anchor == normalize_whitespace(anchor)
        hits == {i \in 0..(Len(lines) - 1) : Contains(lines[i + 1], normalized_anchor)}
    IN  IF hits = {} THEN -1 ELSE CHOOSE i \in hits : \A j \in hits : i <= j

\* the 0-based index of the first line containing the anchor, or -1
find_anchor_line(lines, anchor) ==
    LET normalized_anchor == normalize_whitespace(anchor)
        hits == {i \in 0..(Len(lines) - 1) :
                    Contains(normalize_whitespace(lines[i + 1]), normalized_anchor)}
    IN  IF hits = {} THEN -1 ELSE CHOOSE i \in hits : \A j \in hits : i <= j

\* validate_context scanning to the end of the file, not to anchor_line + max_distance
validate_context_unclamped(lines, anchor_line, context, max_distance) ==
    LET normalized_context == lower(normalize_whitespace(context))
        start == Max(0, anchor_line - max_distance)
        end == Len(lines)
    IN  \E i \in start..(end - 1) :
            Contains(lower(normalize_whitespace(lines[i + 1])), normalized_context)

\* validate_context scanning from the anchor line upwards only
validate_context_above(lines, anchor_line, context, max_distance) ==
    LET normalized_context == lower(normalize_whitespace(context))
        start == Max(0, anchor_line - max_distance)
        end == Min(Len(lines), anchor_line + 1)
    IN  \E i \in start..(end - 1) :
            Contains(lower(normalize_whitespace(lines[i + 1])), normalized_context)

\* the indices validate_context's loop runs over: range(start, end)
scanned(lines, anchor_line, max_distance) ==
    Max(0, anchor_line - max_distance)..(Min(Len(lines), anchor_line + max_distance + 1) - 1)

validate_context(lines, anchor_line, context, max_distance) ==
    LET normalized_context == lower(normalize_whitespace(context))
        start == Max(0, anchor_line - max_distance)
        end == Min(Len(lines), anchor_line + max_distance + 1)
    IN  \E i \in start..(end - 1) :
            Contains(lower(normalize_whitespace(lines[i + 1])), normalized_context)

is_already_wrapped(lines, anchor_line) ==
    IF anchor_line <= 0 THEN FALSE
    ELSE startswith(strip(lines[anchor_line]), IF_EDOG_DEVMODE)

\* apply_smart_pattern writing the anchor line without its indentation
apply_smart_pattern_unindented(content, pattern_config) ==
    LET lines == splitOn(content, "NL")
        anchor_line == find_anchor_line(lines, pattern_config.anchor)
    IN  IF anchor_line = -1 THEN [content |-> content, status |-> "anchor_not_found"]
        ELSE IF ~validate_context(lines, anchor_line, pattern_config.context,
                                  pattern_config.context_distance)
        THEN [content |-> content, status |-> "context_mismatch"]
        ELSE IF is_already_wrapped(lines, anchor_line)
        THEN [content |-> content, status |-> "already_applied"]
        ELSE LET original_line == lines[anchor_line + 1]
                 wrapped == GUARD_OPEN \o <<"NL">> \o lstrip(original_line) \o <<"NL">>
                            \o ENDIF
             IN  [content |-> join(<<"NL">>, [lines EXCEPT ![anchor_line + 1] = wrapped]),
                  status |-> "applied"]

apply_smart_pattern(content, pattern_config) ==
    LET lines == splitOn(content, "NL")
        anchor_line == find_anchor_line(lines, pattern_config.anchor)
    IN  IF anchor_line = -1 THEN [content |-> content, status |-> "anchor_not_found"]
        ELSE IF ~validate_context(lines, anchor_line, pattern_config.context,
                                  pattern_config.context_distance)
        THEN [content |-> content, status |-> "context_mismatch"]
        ELSE IF is_already_wrapped(lines, anchor_line)
        THEN [content |-> content, status |-> "already_applied"]
        ELSE LET original_line == lines[anchor_line + 1]
                 indent == Len(original_line) - Len(lstrip(original_line))
                 indent_str == Slice(original_line, 0, indent)
                 wrapped == GUARD_OPEN \o <<"NL">> \o original_line \o <<"NL">>
                            \o indent_str \o ENDIF
             IN  [content |-> join(<<"NL">>, [lines EXCEPT ![anchor_line + 1] = wrapped]),
                  status |-> "applied"]

\* del lines[i] for a 0-based i
DelLine(lines, i) == Slice(lines, 0, i) \o Slice(lines, i + 1, Len(lines))

\* revert_smart_pattern deleting the guard-open first, so that the index of the
\* guard-close has shifted when it is deleted
revert_smart_pattern_shifted(content, pattern_config) ==
    LET lines == splitOn(content, "NL")
        anchor_line == find_anchor_line(lines, pattern_config.anchor)
    IN  IF anchor_line = -1 THEN [content |-> content, reverted |-> FALSE]
        ELSE IF ~is_already_wrapped(lines, anchor_line)
        THEN [content |-> content, reverted |-> FALSE]
        ELSE LET window == {i \in (anchor_line + 1)..(Min(Len(lines), anchor_line + 3) - 1) :
                               startswith(strip(lines[i + 1]), ENDIF)}
             IN  IF window = {} THEN [content |-> content, reverted |-> FALSE]
                 ELSE LET endif_line == CHOOSE i \in window : \A j \in window : i <= j
                          shifted == DelLine(lines, anchor_line - 1)
                      IN  [content |-> join(<<"NL">>,
                                            IF endif_line < Len(shifted)
                                            THEN DelLine(shifted, endif_line)
                                            ELSE shifted),
                           reverted |-> TRUE]

\* revert_smart_pattern looking for the guard-close in the line after the anchor only
revert_smart_pattern_narrow(content, pattern_config) ==
    LET lines == splitOn(content, "NL")
        anchor_line == find_anchor_line(lines, pattern_config.anchor)
    IN  IF anchor_line = -1 THEN [content |-> content, reverted |-> FALSE]
        ELSE IF ~is_already_wrapped(lines, anchor_line)
        THEN [content |-> content, reverted |-> FALSE]
        ELSE LET window == {i \in (anchor_line + 1)..(Min(Len(lines), anchor_line + 2) - 1) :
                               startswith(strip(lines[i + 1]), ENDIF)}
             IN  IF window = {} THEN [content |-> content, reverted |-> FALSE]
                 ELSE LET endif_line == CHOOSE i \in window : \A j \in window : i <= j
                      IN  [content |-> join(<<"NL">>,
                                            DelLine(DelLine(lines, endif_line), anchor_line - 1)),
                           reverted |-> TRUE]

revert_smart_pattern(content, pattern_config) ==
    LET lines == splitOn(content, "NL")
        anchor_line == find_anchor_line(lines, pattern_config.anchor)
    IN  IF anchor_line = -1 THEN [content |-> content, reverted |-> FALSE]
        ELSE IF ~is_already_wrapped(lines, anchor_line)
        THEN [content |-> content, reverted |-> FALSE]
        ELSE LET window == {i \in (anchor_line + 1)..(Min(Len(lines), anchor_line + 3) - 1) :
                               startswith(strip(lines[i + 1]), ENDIF)}
             IN  IF window = {} THEN [content |-> content, reverted |-> FALSE]
                 ELSE LET endif_line == CHOOSE i \in window : \A j \in window : i <= j
                      IN  [content |-> join(<<"NL">>,
                                            DelLine(DelLine(lines, endif_line), anchor_line - 1)),
                           reverted |-> TRUE]

\* check_smart_pattern_status looking for the guard before it validates the context
check_smart_pattern_status_guard_first(content, pattern_config) ==
    LET lines == splitOn(content, "NL")
        anchor_line == find_anchor_line(lines, pattern_config.anchor)
    IN  IF anchor_line = -1 THEN "anchor_not_found"
        ELSE IF is_already_wrapped(lines, anchor_line) THEN "applied"
        ELSE IF ~validate_context(lines, anchor_line, pattern_config.context,
                                  pattern_config.context_distance)
        THEN "context_mismatch"
        ELSE "not_applied"

check_smart_pattern_status(content, pattern_config) ==
    LET lines == splitOn(content, "NL")
        anchor_line == find_anchor_line(lines, pattern_config.anchor)
    IN  IF anchor_line = -1 THEN "anchor_not_found"
        ELSE IF ~validate_context(lines, anchor_line, pattern_config.context,
                                  pattern_config.context_distance)
        THEN "context_mismatch"
        ELSE IF is_already_wrapped(lines, anchor_line) THEN "applied"
        ELSE "not_applied"

-----------------------------------------------------------------------------
(* Harness of the wrap transform: one document, one rule, a chain of calls *)

\* one rule with a two-word context and one with a one-word context; the other
\* two rules of the table are these two under other names
WrapKeys == {"auth_engine_ltc", "permission_filter_getlatestdag"}

\* the rules of the table, each at every context_distance of the harness
WrapRules ==
    {[SMART_PATTERNS[k] EXCEPT !.context_distance = d] :
        k \in WrapKeys, d \in 0..MaxDistance}

\* a line that holds the rule's context in another case and spacing
ContextLine(r) ==
    CASE r.context = <<"class", " ", "LiveTableController">> ->
            <<"public", " ", "Class", "TAB", " ", "LiveTableController">>
      [] r.context = <<"class", " ", "LiveTableSchedulerRunController">> ->
            <<"Class", " ", " ", "LiveTableSchedulerRunController">>
      [] r.context = <<"getLatestDag">> -> <<" ", "GetLatestDag", "(", ")">>
      [] r.context = <<"runDAG">> -> <<" ", "RunDag", "(", ")">>

\* the lines a harness document is made of
LineShapes(r) ==
    { <<" ", " ">> \o r.anchor,          \* the anchor, indented
      ContextLine(r),
      <<"x">>,                           \* unrelated code
      <<>>,                              \* an empty line
      GUARD_OPEN,
      <<" ", " ">> \o ENDIF }

RECURSIVE SeqsUpTo(_, _)
SeqsUpTo(S, n) ==
    IF n = 0 THEN {<<>>}
    ELSE LET shorter == SeqsUpTo(S, n - 1)
         IN  shorter \cup {Append(s, x) : s \in {t \in shorter : Len(t) = n - 1}, x \in S}

\* documents of up to MaxLines lines, and the documents of MaxLines + 1 lines
\* that start with a guard-open line and the anchor line
WrapDocs(r) ==
    {join(<<"NL">>, ls) : ls \in SeqsUpTo(LineShapes(r), MaxLines) \ {<<>>}}
    \cup {join(<<"NL">>, <<GUARD_OPEN, <<" ", " ">> \o r.anchor>> \o ls) :
            ls \in {t \in SeqsUpTo(LineShapes(r), MaxLines - 1) : Len(t) = MaxLines - 1}}

\* the process is between two batch calls
Idle == [op |-> "idle"]

\* there is no token cache file
NoFile == [exists |-> FALSE, content |-> <<>>]

\* a file with the given content
File(content) == [exists |-> TRUE, content |-> content]

\* the token cache takes no part
NoCache == cache = NoFile /\ now = 0

\* the working tree takes no part in the harness of a single transform
NoTree ==
    /\ files = <<>> /\ patch = <<>> /\ pristine = <<>>
    /\ log = <<>> /\ prevFiles = <<>> /\ prevPatch = <<>>
    /\ proc = Idle

InitWrap ==
    /\ NoTree
    /\ NoCache
    /\ rule \in WrapRules
    /\ origDoc \in WrapDocs(rule)
    /\ doc = origDoc
    /\ prevDoc = origDoc
    /\ hist = <<>>

Call(op, status, content) ==
    /\ Len(hist) < MaxOps
    /\ hist' = Append(hist, [op |-> op, status |-> status])
    /\ prevDoc' = doc
    /\ doc' = content
    /\ UNCHANGED <<origDoc, rule>>
    /\ UNCHANGED batchVars
    /\ UNCHANGED cacheVars

WrapApply ==
    LET r == apply_smart_pattern(doc, rule)
    IN  Call("apply", r.status, r.content)

WrapRevert ==
    LET r == revert_smart_pattern(doc, rule)
    IN  Call("revert", IF r.reverted THEN "reverted" ELSE "not_reverted", r.content)

WrapStatus ==
    Call("status", check_smart_pattern_status(doc, rule), doc)

NextWrap == WrapApply \/ WrapRevert \/ WrapStatus

SpecWrap == InitWrap /\ [][NextWrap]_vars

-----------------------------------------------------------------------------
(* Vocabulary of the claims about the wrap transform *)

Ops == [i \in 1..Len(hist) |-> hist[i].op]
LastCall == hist[Len(hist)]

LinesOf(content) == splitOn(content, "NL")

\* line i (0-based) holds the text, whitespace collapsed, case as given
LineHas(lines, i, text) ==
    Contains(normalize_whitespace(lines[i + 1]), normalize_whitespace(text))

\* line i (0-based) holds the text, whitespace collapsed, whatever the case
LineHasNoCase(lines, i, text) ==
    Contains(lower(normalize_whitespace(lines[i + 1])), lower(normalize_whitespace(text)))

HasAnchor(lines, r) == \E i \in 0..(Len(lines) - 1) : LineHas(lines, i, r.anchor)

\* the first line that holds the anchor (only used where HasAnchor)
FirstAnchor(lines, r) ==
    CHOOSE i \in 0..(Len(lines) - 1) :
        /\ LineHas(lines, i, r.anchor)
        /\ \A j \in 0..(i - 1) : ~LineHas(lines, j, r.anchor)

\* some line at most context_distance lines from line a holds the context
ContextNear(lines, a, r) ==
    \E j \in 0..(Len(lines) - 1) :
        /\ j - a <= r.context_distance
        /\ a - j <= r.context_distance
        /\ LineHasNoCase(lines, j, r.context)

\* the line right above the first anchor line is a guard-open line
GuardAbove(lines, r) ==
    /\ HasAnchor(lines, r)
    /\ FirstAnchor(lines, r) >= 1
    /\ startswith(strip(lines[FirstAnchor(lines, r)]), IF_EDOG_DEVMODE)

-----------------------------------------------------------------------------
(* Claims about the wrap transform, under SpecWrap *)

ApplyThenRevert == Len(hist) = 2 /\ Ops = <<"apply", "revert">>

C2_ApplyIdempotent ==
    (Len(hist) = 2 /\ Ops = <<"apply", "apply">> /\ hist[1].status = "applied") =>
        (hist[2].status = "already_applied" /\ doc = prevDoc)

\* C6: when the anchor is found and no line within context_distance lines of
\* the first anchor line holds the context, apply returns ContextMismatch and
\* the document it was given; no guard is inserted there.
C6_ContextRefusal ==
    (Len(hist) >= 1 /\ LastCall.op = "apply") =>
        LET lines == LinesOf(prevDoc)
        IN  (HasAnchor(lines, rule) /\ ~ContextNear(lines, FirstAnchor(lines, rule), rule)) =>
                (LastCall.status = "context_mismatch" /\ doc = prevDoc)

\* apply was called on a document whose anchor has the context in the file,
\* but too far away
C6_Witness ==
    /\ Len(hist) >= 1 /\ LastCall.op = "apply"
    /\ LET lines == LinesOf(prevDoc)
       IN  /\ HasAnchor(lines, rule)
           /\ ~ContextNear(lines, FirstAnchor(lines, rule), rule)
           /\ \E j \in 0..(Len(lines) - 1) : LineHasNoCase(lines, j, rule.context)
    /\ LastCall.status = "context_mismatch"

\* C7: when no line holds the anchor, apply returns AnchorNotFound and the
\* document it was given.
C7_AnchorNotFound ==
    (Len(hist) >= 1 /\ LastCall.op = "apply" /\ ~HasAnchor(LinesOf(prevDoc), rule)) =>
        (LastCall.status = "anchor_not_found" /\ doc = prevDoc)

\* apply was called on a document that has guard lines and the context, but no anchor
C7_Witness ==
    /\ Len(hist) >= 1 /\ LastCall.op = "apply"
    /\ ~HasAnchor(LinesOf(prevDoc), rule)
    /\ Len(LinesOf(prevDoc)) >= 2
    /\ \E j \in 0..(Len(LinesOf(prevDoc)) - 1) : LineHasNoCase(LinesOf(prevDoc), j, rule.context)
    /\ LastCall.status = "anchor_not_found"


\* C25: when apply returns Applied, check_smart_pattern_status on the
\* document it returned answers Applied, and that document has exactly two
\* lines more than the one apply was given.
C25_StatusAfterApply ==
    (Len(hist) = 2 /\ Ops = <<"apply", "status">> /\ hist[1].status = "applied") =>
        /\ hist[2].status = "applied"
        /\ Len(LinesOf(doc)) = Len(LinesOf(origDoc)) + 2


\* the last call was an apply that returned Applied
WrapApplied == hist # <<>> /\ LastCall.op = "apply" /\ LastCall.status = "applied"

\* C27: when apply returns Applied for the anchor at line i, the document it
\* returns is the document it was given with the guard-open line right
\* before line i and a guard-close line right after it; line i and every
\* other line are as they were, in the order they were.
C27_ApplySplice ==
    WrapApplied =>
        LET before == LinesOf(prevDoc)
            after == LinesOf(doc)
            i == FirstAnchor(before, rule)
        IN  /\ Len(after) = Len(before) + 2
            /\ SubSeq(after, 1, i) = SubSeq(before, 1, i)
            /\ after[i + 1] = GUARD_OPEN
            /\ after[i + 2] = before[i + 1]
            /\ strip(after[i + 3]) = ENDIF
            /\ SubSeq(after, i + 4, Len(after)) = SubSeq(before, i + 2, Len(before))

\* the anchor line that was wrapped has a line above it and a line below it
C27_Witness ==
    /\ WrapApplied
    /\ Len(hist) = 1
    /\ Len(LinesOf(prevDoc)) = 3
    /\ FirstAnchor(LinesOf(prevDoc), rule) = 1
    /\ LinesOf(doc)[5] = LinesOf(prevDoc)[3]
    /\ LinesOf(doc)[1] = LinesOf(prevDoc)[1]


\* the lines that hold the anchor, in the order they have in the document
AnchorLines(lines, r) ==
    LET hits == {i \in 0..(Len(lines) - 1) : LineHas(lines, i, r.anchor)}
    IN  SelectSeq(lines, LAMBDA l : \E i \in hits : lines[i + 1] = l)

\* a line below the first anchor line holds the anchor and has the context near it
LaterOccurrenceValidates(lines, r) ==
    \E j \in (FirstAnchor(lines, r) + 1)..(Len(lines) - 1) :
        LineHas(lines, j, r.anchor) /\ ContextNear(lines, j, r)

\* C28: apply, revert and status decide on the first line that holds the
\* anchor. When that line has no context near it, apply and status answer
\* ContextMismatch and the document stays as it was, even when a later line
\* holding the anchor has the context near it; an apply that returns Applied
\* puts its guard around the first occurrence, a revert that reverts takes
\* away the line above the first occurrence and the first guard-close within
\* the two lines below it and nothing else, and in every call the lines
\* holding the anchor come out as they went in; apply and status also leave
\* every line from the second occurrence on as it was.
C28_FirstMatchWins ==
    (hist # <<>> /\ HasAnchor(LinesOf(prevDoc), rule)) =>
        LET before == LinesOf(prevDoc)
            after == LinesOf(doc)
            first == FirstAnchor(before, rule)
            later == {j \in (first + 1)..(Len(before) - 1) : LineHas(before, j, rule.anchor)}
        IN  /\ (LastCall.op \in {"apply", "status"} /\ ~ContextNear(before, first, rule)) =>
                    (LastCall.status = "context_mismatch" /\ doc = prevDoc)
            /\ LastCall.status = "applied" /\ LastCall.op = "apply" =>
                    (after[first + 1] = GUARD_OPEN /\ after[first + 2] = before[first + 1])
            /\ LastCall.status = "reverted" =>
                    (first >= 1 /\ after = DelLine(DelLine(before,
                         CHOOSE e \in {first + 1, first + 2} :
                             /\ e < Len(before)
                             /\ startswith(strip(before[e + 1]), ENDIF)
                             /\ (e = first + 2 => ~startswith(strip(before[first + 2]), ENDIF))),
                         first - 1))
            /\ AnchorLines(after, rule) = AnchorLines(before, rule)
            /\ \A j \in IF LastCall.status = "reverted" THEN {} ELSE later :
                    LET k == Len(before) - j
                    IN  SubSeq(after, Len(after) - k + 1, Len(after))
                            = SubSeq(before, j + 1, Len(before))

\* apply refused a document whose first anchor line has no context near it
\* while a later anchor line has
C28_Witness ==
    /\ hist # <<>> /\ LastCall.op = "apply"
    /\ HasAnchor(LinesOf(prevDoc), rule)
    /\ ~ContextNear(LinesOf(prevDoc), FirstAnchor(LinesOf(prevDoc), rule), rule)
    /\ LaterOccurrenceValidates(LinesOf(prevDoc), rule)
    /\ LastCall.status = "context_mismatch"
    /\ doc = prevDoc



\* the last call was a revert
WrapReverted == hist # <<>> /\ LastCall.op = "revert"

\* the guard-close lines among the two lines below line a (0-based indices)
GuardCloseBelow(lines, a) ==
    {e \in {a + 1, a + 2} : e < Len(lines) /\ Head(strip(lines[e + 1]) \o <<"">>) = "#endif"}

\* C31: revert_smart_pattern either returns the document it was given and
\* 'not reverted' (no anchor, no guard-open on the line before the first
\* anchor line, or no guard-close in the two lines after it), or it removes
\* exactly two lines, the guard-open right before the anchor line and the
\* first guard-close of those two lines, and every other line stays, in order.
C31_RevertFrame ==
    WrapReverted =>
        LET before == LinesOf(prevDoc)
            after == LinesOf(doc)
            wrapped == GuardAbove(before, rule)
                       /\ GuardCloseBelow(before, FirstAnchor(before, rule)) # {}
        IN  /\ ~wrapped => (LastCall.status = "not_reverted" /\ doc = prevDoc)
            /\ wrapped =>
                   LET a == FirstAnchor(before, rule)
                       e == CHOOSE x \in GuardCloseBelow(before, a) :
                                \A y \in GuardCloseBelow(before, a) : x <= y
                   IN  /\ LastCall.status = "reverted"
                       /\ Len(after) = Len(before) - 2
                       /\ \A j \in 0..(Len(before) - 1) \ {a - 1, e} :
                              after[(IF j < a - 1 THEN j ELSE IF j < e THEN j - 1 ELSE j - 2) + 1]
                                  = before[j + 1]

\* a revert took the guard-open and a guard-close that was not the line right
\* below the anchor, and left the line between them and the anchor line
C31_Witness ==
    /\ WrapReverted /\ LastCall.status = "reverted"
    /\ LET before == LinesOf(prevDoc)
           a == FirstAnchor(before, rule)
       IN  /\ GuardCloseBelow(before, a) = {a + 2}
           /\ LinesOf(doc) = <<before[a + 1], before[a + 2]>>

\* what apply answers on a document for which status answered s
ApplyAnswerFor(s) ==
    CASE s = "applied" -> "already_applied"
      [] s = "not_applied" -> "applied"
      [] OTHER -> s

\* C33: on every document and rule, check_smart_pattern_status answers
\* applied exactly when apply_smart_pattern answers already_applied,
\* not_applied exactly when apply answers applied, and anchor_not_found or
\* context_mismatch exactly when apply answers the same.
C33_OracleAgreesWithApply ==
    \A n \in 1..(Len(hist) - 1) :
        (hist[n].op = "status" /\ hist[n + 1].op = "apply") =>
            /\ hist[n].status \in {"applied", "not_applied", "anchor_not_found",
                                   "context_mismatch"}
            /\ hist[n + 1].status = ApplyAnswerFor(hist[n].status)

\* status and then apply on a document that is guarded by hand, with the
\* context in reach: applied, already_applied
C33_Witness ==
    /\ Len(hist) = 2
    /\ hist[1].op = "status" /\ hist[1].status = "applied"
    /\ hist[2].op = "apply" /\ hist[2].status = "already_applied"
    /\ doc = origDoc

-----------------------------------------------------------------------------
(* Harness of the locator and the context validator: one document, one
   anchor, one context, a chain of calls of the two functions *)

\* an anchor or context of several words, the same with other whitespace, and
\* one of a single word
LocateTexts ==
    { <<"class", " ", "LiveTableController">>,
      <<" ", "class", "TAB", " ", "LiveTableController", " ">>,
      <<"[AuthenticationEngine]">> }

\* the lines of a document of this harness
LocateLines ==
    { <<"TAB", "public", " ", "class", " ", " ", "LiveTableController", " ", "{">>,
      <<"Class", " ", "LiveTableController">>,        \* another case
      <<"class", "LiveTableController">>,             \* no whitespace between the words
      <<" ", " ", "[AuthenticationEngine]">>,
      <<>> }

LocateDocs == {join(<<"NL">>, ls) : ls \in SeqsUpTo(LocateLines, MaxLines) \ {<<>>}}

InitLocate ==
    /\ NoTree
    /\ NoCache
    /\ rule \in [anchor : LocateTexts, context : LocateTexts,
                 context_distance : 0..MaxDistance]
    /\ origDoc \in LocateDocs
    /\ doc = origDoc
    /\ prevDoc = origDoc
    /\ hist = <<>>

Returned(entry) ==
    /\ Len(hist) < MaxOps
    /\ hist' = Append(hist, entry)
    /\ UNCHANGED <<doc, prevDoc, origDoc, rule>>
    /\ UNCHANGED batchVars
    /\ UNCHANGED cacheVars

FindAnchorLine ==
    Returned([op |-> "find_anchor_line",
              result |-> find_anchor_line(splitOn(doc, "NL"), rule.anchor)])

ValidateContext ==
    \E anchor_line \in 0..(Len(splitOn(doc, "NL")) - 1) :
        Returned([op |-> "validate_context",
                  anchor_line |-> anchor_line,
                  scanned |-> scanned(splitOn(doc, "NL"), anchor_line, rule.context_distance),
                  result |-> validate_context(splitOn(doc, "NL"), anchor_line,
                                              rule.context, rule.context_distance)])

NextLocate == FindAnchorLine \/ ValidateContext

SpecLocate == InitLocate /\ [][NextLocate]_vars

-----------------------------------------------------------------------------
(* Claims about the locator and the context validator, under SpecLocate *)

\* every run of whitespace made one space
RECURSIVE Squeezed(_)
Squeezed(text) ==
    IF text = <<>> THEN <<>>
    ELSE IF ~IsSpace(Head(text)) THEN <<Head(text)>> \o Squeezed(Tail(text))
    ELSE IF Tail(text) # <<>> /\ IsSpace(Head(Tail(text))) THEN Squeezed(Tail(text))
    ELSE <<" ">> \o Squeezed(Tail(text))

\* whitespace-collapsed: runs made one space, none at either end
Collapsed(text) ==
    LET s == Squeezed(text)
        a == IF s # <<>> /\ Head(s) = " " THEN Tail(s) ELSE s
    IN  IF a # <<>> /\ a[Len(a)] = " " THEN SubSeq(a, 1, Len(a) - 1) ELSE a

\* the collapsed line holds the collapsed text, case as given
Matches(line, text) == Contains(Collapsed(line), Collapsed(text))

\* the collapsed line holds the collapsed text, whatever the case
MatchesNoCase(line, text) == Contains(lower(Collapsed(line)), lower(Collapsed(text)))

\* C29: find_anchor_line returns the smallest index of a line whose
\* whitespace-collapsed text holds the whitespace-collapsed anchor, case as
\* given, and -1 when there is no such line; a line that differs from the
\* anchor only in its runs of whitespace is such a line.
C29_Locator ==
    \A n \in 1..Len(hist) :
        hist[n].op = "find_anchor_line" =>
            LET lines == LinesOf(doc)
                i == hist[n].result
                hits == {j \in 0..(Len(lines) - 1) : Matches(lines[j + 1], rule.anchor)}
            IN  /\ hits = {} => i = -1
                /\ hits # {} => (i \in hits /\ \A j \in hits : i <= j)
                /\ \A j \in 0..(Len(lines) - 1) :
                        Collapsed(lines[j + 1]) = Collapsed(rule.anchor) => (i >= 0 /\ i <= j)

\* the locator passed over a line that differs from the anchor in case and
\* returned a later line that differs from the anchor in whitespace
C29_Witness ==
    /\ hist # <<>> /\ hist[1].op = "find_anchor_line"
    /\ hist[1].result >= 1
    /\ LET lines == LinesOf(doc)
           i == hist[1].result
       IN  /\ lines[i + 1] # rule.anchor
           /\ ~Contains(lines[i + 1], rule.anchor)
           /\ Matches(lines[i + 1], rule.anchor)
           /\ MatchesNoCase(lines[1], rule.anchor)

\* C30: validate_context(lines, i, context, d) is true exactly when a line
\* with index in [max(0, i - d), min(len - 1, i + d)] holds the context,
\* whitespace collapsed and whatever the case, be it above or below line i;
\* the indices it scans are indices of the document.
C30_ContextValidator ==
    \A n \in 1..Len(hist) :
        hist[n].op = "validate_context" =>
            LET lines == LinesOf(doc)
                i == hist[n].anchor_line
                d == rule.context_distance
                lo == IF i - d > 0 THEN i - d ELSE 0
                hi == IF i + d < Len(lines) - 1 THEN i + d ELSE Len(lines) - 1
            IN  /\ hist[n].result = (\E j \in lo..hi : MatchesNoCase(lines[j + 1], rule.context))
                /\ hist[n].scanned \subseteq 0..(Len(lines) - 1)

\* on one document the validator accepted a context that lies only above the
\* line it was given, and a context that lies only below the line it was
\* given, at the very distance allowed; the window was cut at the top of the
\* document in one call and at the bottom in the other
C30_Witness ==
    /\ Len(hist) = 2
    /\ hist[1].op = "validate_context" /\ hist[2].op = "validate_context"
    /\ hist[1].result /\ hist[2].result
    /\ rule.context_distance >= 1
    /\ LET lines == LinesOf(doc)
           holds == {j \in 0..(Len(lines) - 1) : MatchesNoCase(lines[j + 1], rule.context)}
       IN  /\ \A j \in holds : j = hist[1].anchor_line - rule.context_distance
           /\ \A j \in holds : j = hist[2].anchor_line + rule.context_distance
           /\ hist[1].anchor_line + rule.context_distance > Len(lines) - 1
           /\ hist[2].anchor_line - rule.context_distance < 0

-----------------------------------------------------------------------------
(* Regular expressions of the form  prefix [^excl]+ suffix  (re module) *)

\* the end of the greedy match that starts at index i, or -1
MatchEnd(text, i, prefix, excl, suffix) ==
    LET b == i + Len(prefix)
        ns == {n \in 1..(Len(text) - b - Len(suffix)) :
                  /\ \A k \in 1..n : text[b + k] # excl
                  /\ Slice(text, b + n, b + n + Len(suffix)) = suffix}
    IN  IF b > Len(text) \/ Slice(text, i, b) # prefix \/ ns = {} THEN -1
        ELSE b + (CHOOSE n \in ns : \A m \in ns : m <= n) + Len(suffix)

\* re.search: the start of the leftmost match, or -1
re_search(text, prefix, excl, suffix) ==
    LET hits == {i \in 0..(Len(text) - 1) : MatchEnd(text, i, prefix, excl, suffix) # -1}
    IN  IF hits = {} THEN -1 ELSE CHOOSE i \in hits : \A j \in hits : i <= j

\* re.sub from index from on: every non-overlapping match replaced by repl
RECURSIVE re_sub_from(_, _, _, _, _, _)
re_sub_from(text, from, prefix, excl, suffix, repl) ==
    LET hits == {i \in from..(Len(text) - 1) : MatchEnd(text, i, prefix, excl, suffix) # -1}
        i == CHOOSE i \in hits : \A j \in hits : i <= j
    IN  IF hits = {} THEN Slice(text, from, Len(text))
        ELSE Slice(text, from, i) \o repl
             \o re_sub_from(text, MatchEnd(text, i, prefix, excl, suffix),
                            prefix, excl, suffix, repl)

re_sub(text, prefix, excl, suffix, repl) == re_sub_from(text, 0, prefix, excl, suffix, repl)

-----------------------------------------------------------------------------
(* base64: an injective code into an alphabet of its own (no whitespace, no  *)
(* brace, no quote, no colon, no slash pair)                                 *)

b64encode(text) == [i \in 1..Len(text) |-> "b64:" \o text[i]]

IsB64(c) == Len(c) > 4 /\ SubSeq(c, 1, 4) = "b64:"

\* b64decode(...).decode('utf-8'): whitespace is discarded; anything else that
\* is no base64 of a text makes the decoding raise (ok = FALSE)
b64decode(text) ==
    LET kept == SelectSeq(text, LAMBDA c : ~IsSpace(c))
    IN  IF \A i \in 1..Len(kept) : IsB64(kept[i])
        THEN [ok |-> TRUE, text |-> [i \in 1..Len(kept) |-> SubSeq(kept[i], 5, Len(kept[i]))]]
        ELSE [ok |-> FALSE]

-----------------------------------------------------------------------------
(* The external version-control command "git show HEAD:<file>", as the code  *)
(* sees it: no repo_root given, a result with returncode 0 and the file's    *)
(* HEAD content on stdout, or a failure (non-zero returncode or an exception)*)

NoRepo == [kind |-> "none"]
GitShowFails == [kind |-> "fail"]
GitShowOk(content) == [kind |-> "ok", stdout |-> content]

-----------------------------------------------------------------------------
(* Structural bypass transform of GTSBasedSparkClient *)

method_sig ==
    <<"protected async virtual Task<Token> GenerateMWCV1TokenForGTSWorkloadAsync(CancellationToken ct)">>
\* the signature after upstream has renamed the method
renamed_sig == <<"protected async virtual Task<Token> RenamedAsync()">>
spark_edog_marker == <<"//", " ", "EDOG DevMode - bypassing OBO token exchange">>
spark_original_marker_start == <<"//", " ", "EDOG_ORIGINAL_START:">>
spark_original_marker_end == <<"//", " ", "EDOG_ORIGINAL_END">>
\* 'var hardcodedToken = "'; "DQUOTE" is the double quote
hardcodedToken_eq == <<"var hardcodedToken = ", "DQUOTE">>

\* the bypass block apply writes in place of the method
bypass_code(original_encoded, token) ==
    <<"NL", " ">> \o spark_original_marker_start \o original_encoded
    \o <<"NL", " ">> \o method_sig
    \o <<"NL", " ", "{">>
    \o <<"NL", " ">> \o spark_edog_marker \o <<" ", "(hardcoded by edog tool)">>
    \o <<"NL", " ">> \o hardcodedToken_eq \o <<token, "DQUOTE", ";">>
    \o <<"NL", " ", "Tracer.LogSanitizedWarning(...)", ";">>
    \o <<"NL", " ", "return await Task.FromResult(new Token">>
    \o <<"NL", " ", "{">>
    \o <<"NL", " ", "Value = hardcodedToken,">>
    \o <<"NL", " ", "Expiry = DateTimeOffset.UtcNow.AddHours(1),">>
    \o <<"NL", " ", "}", ")", ";">>
    \o <<"NL", " ", "}">>

\* while pos < len(content) and brace_count > 0: count the braces
\* (called with brace_count = 1, right after the opening brace): pos and
\* brace_count when the loop ends
BraceWalk(content, pos, brace_count) ==
    LET count(k) == brace_count
                    + Cardinality({j \in (pos + 1)..k : content[j] = "{"})
                    - Cardinality({j \in (pos + 1)..k : content[j] = "}"})
        closed == {k \in (pos + 1)..Len(content) : count(k) = 0}
    IN  IF closed = {}
        THEN [pos |-> Max(pos, Len(content)), brace_count |-> count(Len(content))]
        ELSE [pos |-> CHOOSE k \in closed : \A m \in closed : k <= m, brace_count |-> 0]

\* while method_start > 0: take in the comment, attribute and blank lines above
RECURSIVE MethodStart(_, _)
MethodStart(content, method_start) ==
    IF method_start > 0
    THEN LET prev_line_end == method_start - 1
             prev_line_start == rfind(content, <<"NL">>, prev_line_end) + 1
             prev_line == strip(Slice(content, prev_line_start, prev_line_end))
         IN  IF \/ startswith(prev_line, <<"//">>)
                \/ startswith(prev_line, <<"/*">>)
                \/ startswith(prev_line, <<"*">>)
                \/ startswith(prev_line, <<"[">>)
                \/ prev_line = <<>>
             THEN MethodStart(content, prev_line_start)
             ELSE method_start
    ELSE method_start

\* MethodSpan taking the end of the file for the end of a method whose braces
\* do not close
MethodSpan_truncating(content) ==
    LET sig_start == find(content, method_sig, 0)
        brace_start == find(content, <<"{">>, sig_start)
        walk == BraceWalk(content, brace_start + 1, 1)
    IN  IF sig_start = -1 \/ brace_start = -1
        THEN [found |-> FALSE]
        ELSE [found |-> TRUE,
              method_start |-> MethodStart(content, rfind(content, <<"NL">>, sig_start) + 1),
              method_end |-> walk.pos]

\* the span [method_start, method_end) of the method, or found = FALSE
MethodSpan(content) ==
    LET sig_start == find(content, method_sig, 0)
        brace_start == find(content, <<"{">>, sig_start)
        walk == BraceWalk(content, brace_start + 1, 1)
    IN  IF sig_start = -1 \/ brace_start = -1 \/ walk.brace_count # 0
        THEN [found |-> FALSE]
        ELSE [found |-> TRUE,
              method_start |-> MethodStart(content, rfind(content, <<"NL">>, sig_start) + 1),
              method_end |-> walk.pos]

\* apply_fresh_spark_bypass storing the method from its signature line on,
\* without the comment, attribute and blank lines it removes above it
apply_fresh_spark_bypass_from_sig(content, token) ==
    LET span == MethodSpan(content)
        line_start == rfind(content, <<"NL">>, find(content, method_sig, 0)) + 1
    IN  IF ~span.found THEN [content |-> content, status |-> "pattern_not_found"]
        ELSE [content |-> Slice(content, 0, span.method_start)
                          \o bypass_code(b64encode(Slice(content, line_start, span.method_end)),
                                         token)
                          \o Slice(content, span.method_end, Len(content)),
              status |-> "applied"]

\* "Apply fresh bypass": replace the method by the bypass block
apply_fresh_spark_bypass(content, token) ==
    LET span == MethodSpan(content)
    IN  IF ~span.found THEN [content |-> content, status |-> "pattern_not_found"]
        ELSE LET original_content == Slice(content, span.method_start, span.method_end)
                 original_encoded == b64encode(original_content)
             IN  [content |-> Slice(content, 0, span.method_start)
                              \o bypass_code(original_encoded, token)
                              \o Slice(content, span.method_end, Len(content)),
                  status |-> "applied"]

\* apply_gts_spark_client_change without the test for the token already in place
apply_gts_spark_client_change_no_same_token(content, token, repo_root) ==
    LET updated == re_sub(content, hardcodedToken_eq, "DQUOTE", <<"DQUOTE", ";">>,
                          hardcodedToken_eq \o <<token, "DQUOTE", ";">>)
    IN  IF ~Contains(content, spark_edog_marker) THEN apply_fresh_spark_bypass(content, token)
        ELSE IF updated # content THEN [content |-> updated, status |-> "token_updated"]
        ELSE apply_fresh_spark_bypass(content, token)

RECURSIVE apply_gts_spark_client_change(_, _, _)
apply_gts_spark_client_change(content, token, repo_root) ==
    LET has_original == /\ Contains(content, spark_original_marker_start)
                        /\ Contains(content, spark_original_marker_end)
        updated == re_sub(content, hardcodedToken_eq, "DQUOTE", <<"DQUOTE", ";">>,
                          hardcodedToken_eq \o <<token, "DQUOTE", ";">>)
        from_git == apply_gts_spark_client_change(repo_root.stdout, token, NoRepo)
    IN  IF ~Contains(content, spark_edog_marker) THEN apply_fresh_spark_bypass(content, token)
        ELSE IF Contains(content, hardcodedToken_eq \o <<token, "DQUOTE">>)
        THEN [content |-> content, status |-> "already_applied"]
        ELSE IF has_original /\ updated # content
        THEN [content |-> updated, status |-> "token_updated"]
        ELSE IF repo_root.kind = "ok" /\ from_git.status = "applied"
        THEN [content |-> from_git.content, status |-> "applied_with_git_original"]
        ELSE IF updated # content
        THEN [content |-> updated, status |-> "token_updated"]
        ELSE apply_fresh_spark_bypass(content, token)

\* "No stored original - try to restore from git", then the legacy fallback;
\* source: where the content came from resp. how far the function got ("git":
\* restored from git HEAD; "git failed": git show was run and failed; "no
\* repo": no repo_root, the legacy warning only)
restore_from_git(content, repo_root) ==
    CASE repo_root.kind = "ok" ->
            [content |-> repo_root.stdout, reverted |-> TRUE, source |-> "git"]
      [] repo_root.kind = "fail" ->
            [content |-> content, reverted |-> FALSE, source |-> "git failed"]
      [] OTHER -> [content |-> content, reverted |-> FALSE, source |-> "no repo"]

revert_gts_spark_client_change(content, repo_root) ==
    LET start_idx == find(content, spark_original_marker_start, 0)
                     + Len(spark_original_marker_start)
        end_idx == find(content, spark_original_marker_end, 0)
        decoded == b64decode(strip(Slice(content, start_idx, end_idx)))
        marker_pos == find(content, spark_original_marker_start, 0)
        marker_line_start == rfind(content, <<"NL">>, marker_pos) + 1
        sig_start == find(content, method_sig, marker_line_start)
        brace_start == find(content, <<"{">>, sig_start)
        walk == BraceWalk(content, brace_start + 1, 1)
    IN  IF ~Contains(content, spark_edog_marker)
        THEN [content |-> content, reverted |-> FALSE, source |-> "none"]
        ELSE IF /\ Contains(content, spark_original_marker_start)
                /\ Contains(content, spark_original_marker_end)
                /\ start_idx < end_idx
                /\ decoded.ok
        THEN IF sig_start = -1 \/ brace_start = -1 \/ walk.brace_count # 0
             THEN [content |-> content, reverted |-> FALSE, source |-> "embedded"]
             ELSE [content |-> Slice(content, 0, marker_line_start) \o decoded.text
                               \o Slice(content, walk.pos, Len(content)),
                   reverted |-> TRUE, source |-> "embedded"]
        ELSE restore_from_git(content, repo_root)

-----------------------------------------------------------------------------
(* Token-line transform of GTSOperationManager *)

op_edog_marker == <<"//", " ", "EDOG DevMode - hardcoded by edog tool">>
op_original_marker_start == <<"//", " ", "EDOG_GTS_OP_ORIGINAL", ":">>
op_original_marker_end == <<":", "END_EDOG_GTS_OP">>
\* 'var mwcV1TokenWithHeader = "MwcToken '
mwcToken_eq == <<"var mwcV1TokenWithHeader = ", "DQUOTE", "MwcToken ">>
\* 'var mwcV1TokenWithHeader = await HttpTokenUtils.GenerateMwcV1TokenHeaderAsync('
generateToken_call ==
    <<"var mwcV1TokenWithHeader = await HttpTokenUtils.GenerateMwcV1TokenHeaderAsync", "(">>

\* f'var mwcV1TokenWithHeader = "MwcToken {token}";  {edog_marker}'
modified_line(token) == mwcToken_eq \o <<token, "DQUOTE", ";", " ", " ">> \o op_edog_marker

\* "Apply fresh bypass - find the original line and store it"
apply_fresh_token_line(content, token) ==
    LET start == re_search(content, generateToken_call, ";", <<")", ";">>)
        end == MatchEnd(content, start, generateToken_call, ";", <<")", ";">>)
        original_line == Slice(content, start, end)
        replacement == modified_line(token) \o <<" ", " ">> \o op_original_marker_start
                       \o b64encode(original_line) \o op_original_marker_end
    IN  IF start = -1 THEN [content |-> content, status |-> "pattern_not_found"]
        ELSE [content |-> Slice(content, 0, start) \o replacement
                          \o Slice(content, end, Len(content)),
              status |-> "applied"]

RECURSIVE apply_gts_operation_manager_change(_, _, _)
apply_gts_operation_manager_change(content, token, repo_root) ==
    LET has_marker == Contains(content, op_edog_marker)
        has_original == /\ Contains(content, op_original_marker_start)
                        /\ Contains(content, op_original_marker_end)
        updated == re_sub(content, mwcToken_eq, "DQUOTE",
                          <<"DQUOTE", ";", " ", " ">> \o op_edog_marker, modified_line(token))
        from_git == apply_gts_operation_manager_change(repo_root.stdout, token, NoRepo)
        manual == re_sub(content, mwcToken_eq, "DQUOTE", <<"DQUOTE", ";">>, modified_line(token))
    IN  IF Contains(content, modified_line(token))
        THEN [content |-> content, status |-> "already_applied"]
        ELSE IF has_marker /\ has_original /\ updated # content
        THEN [content |-> updated, status |-> "token_updated"]
        ELSE IF has_marker /\ repo_root.kind = "ok" /\ from_git.status = "applied"
        THEN [content |-> from_git.content, status |-> "applied_with_git_original"]
        ELSE IF has_marker /\ updated # content
        THEN [content |-> updated, status |-> "token_updated"]
        ELSE IF /\ re_search(content, mwcToken_eq, "DQUOTE", <<"DQUOTE", ";">>) # -1
                /\ ~has_marker
                /\ manual # content
        THEN [content |-> manual, status |-> "token_updated"]
        ELSE apply_fresh_token_line(content, token)

\* the text between the token and the stored original in the line apply writes:
\* '";  // EDOG DevMode - hardcoded by edog tool  // EDOG_GTS_OP_ORIGINAL:'
op_line_middle ==
    <<"DQUOTE", ";", " ", " ">> \o op_edog_marker \o <<" ", " ">> \o op_original_marker_start

\* the end of a match, starting at index i, of the pattern of the whole
\* modified line: 'var mwcV1TokenWithHeader = "MwcToken [^"]+";  <marker>
\* // EDOG_GTS_OP_ORIGINAL:[^:]+:END_EDOG_GTS_OP', or -1
modified_line_end(content, i) ==
    LET token_end == MatchEnd(content, i, mwcToken_eq, "DQUOTE", op_line_middle)
    IN  IF token_end = -1 THEN -1
        ELSE MatchEnd(content, token_end, <<>>, ":", op_original_marker_end)

\* the replacement template of re.sub, expanded: "BSLASH" is the backslash;
\* backslash-n is a line feed, two backslashes are one, a backslash before a
\* quote stays, and a backslash before another letter or at the end makes
\* re.sub raise re.error (ok = FALSE)
RECURSIVE expand_template(_)
expand_template(repl) ==
    IF repl = <<>> THEN [ok |-> TRUE, text |-> <<>>]
    ELSE IF Head(repl) # "BSLASH"
    THEN LET rest == expand_template(Tail(repl))
         IN  IF rest.ok THEN [ok |-> TRUE, text |-> <<Head(repl)>> \o rest.text] ELSE rest
    ELSE IF Len(repl) = 1 \/ repl[2] \notin {"n", "BSLASH", "DQUOTE"} THEN [ok |-> FALSE]
    ELSE LET rest == expand_template(Slice(repl, 2, Len(repl)))
             escaped == CASE repl[2] = "n" -> <<"NL">>
                          [] repl[2] = "BSLASH" -> <<"BSLASH">>
                          [] repl[2] = "DQUOTE" -> <<"BSLASH", "DQUOTE">>
         IN  IF rest.ok THEN [ok |-> TRUE, text |-> escaped \o rest.text] ELSE rest

\* re.sub(pattern, original_line, content) from index from on; original_line
\* is the template already expanded
RECURSIVE restore_original_lines(_, _, _)
restore_original_lines(content, from, original_line) ==
    LET hits == {i \in from..(Len(content) - 1) : modified_line_end(content, i) # -1}
        i == CHOOSE i \in hits : \A j \in hits : i <= j
    IN  IF hits = {} THEN Slice(content, from, Len(content))
        ELSE Slice(content, from, i) \o original_line
             \o restore_original_lines(content, modified_line_end(content, i), original_line)

revert_gts_operation_manager_change(content, repo_root) ==
    LET start_idx == find(content, op_original_marker_start, 0)
                     + Len(op_original_marker_start)
        end_idx == find(content, op_original_marker_end, 0)
        decoded == b64decode(Slice(content, start_idx, end_idx))
        template == expand_template(decoded.text)
        new_content == restore_original_lines(content, 0, template.text)
    IN  IF ~Contains(content, op_edog_marker)
        THEN [content |-> content, reverted |-> FALSE, source |-> "none"]
        ELSE IF /\ Contains(content, op_original_marker_start)
                /\ Contains(content, op_original_marker_end)
                /\ start_idx < end_idx
                /\ decoded.ok
                /\ template.ok
        THEN [content |-> new_content, reverted |-> new_content # content,
              source |-> "embedded"]
        ELSE restore_from_git(content, repo_root)

-----------------------------------------------------------------------------
(* Harness of the structural transform: one file content, a chain of calls *)

Tokens == {"t1", "t2"}

SparkHeads == { <<>>, <<"x", ";", "NL">>, <<"x", ";", "NL", "NL">> }
SparkDecors ==
    { <<>>,
      <<" ", "//", " ", "doc", "NL">>,
      <<" ", "[", "Attr]", "NL">>,
      <<" ", "/*", "NL", " ", "*", "/", "NL">> }
SparkBodies ==
    { <<"NL", " ", "{", "NL", " ", "x", ";", "NL", " ", "}">>,   \* a plain body
      <<" ", "{", "x", "{", "x", "}", "x", "}">>,                \* nested braces
      <<"NL", "{", "x", "{", "x", "}">>,                         \* a brace short
      <<";">> }                                                  \* no body
SparkTails == { <<>>, <<"NL">>, <<"NL", "}", "NL">> }

\* files as they are in the repository, with and without a method to replace
SparkSources ==
    {h \o d \o <<" ">> \o method_sig \o b \o t :
        h \in SparkHeads, d \in SparkDecors, b \in SparkBodies, t \in SparkTails}
    \cup {<<"x", ";", "NL">>}

\* the content "git show HEAD:<file>" prints in the harness
SparkHead ==
    <<"x", ";", "NL", " ", "//", " ", "doc", "NL", " ">> \o method_sig
    \o <<"NL", " ", "{", "NL", " ", "x", ";", "NL", " ", "}", "NL">>

Repos == {NoRepo, GitShowFails, GitShowOk(SparkHead)}

\* GTSBasedSparkClient as another version of the tool or a merge may have left
\* it, the bypass (token t1) in place: "stored", with the original between a
\* start and an end marker; "legacy", with no stored original; "renamed", the
\* original stored but the method renamed under the bypass; "garbled", the
\* stored original not base64
SparkLeftover(kind) ==
    LET head == <<"x", ";", "NL">>
        tail == <<"NL", "}", "NL">>
        original == <<" ", "//", " ", "doc", "NL", " ">> \o method_sig
                    \o <<"NL", " ", "{", "NL", " ", "x", ";", "NL", " ", "}">>
        payload == IF kind = "garbled" THEN <<"x">> ELSE b64encode(original)
        block == bypass_code(payload, "t1")
        stored_end == 2 + Len(spark_original_marker_start) + Len(payload)
        with_end == Slice(block, 1, stored_end) \o <<" ">> \o spark_original_marker_end
                    \o Slice(block, stored_end, Len(block))
    IN  CASE kind \in {"stored", "garbled"} -> head \o with_end \o tail
          [] kind = "legacy" -> head \o Slice(block, stored_end + 1, Len(block)) \o tail
          [] kind = "renamed" ->
                head
                \o [i \in 1..Len(with_end) |->
                       IF with_end[i] = method_sig[1] THEN renamed_sig[1] ELSE with_end[i]]
                \o tail

SparkLeftovers == {SparkLeftover(kind) : kind \in {"stored", "legacy", "renamed", "garbled"}}

\* GTSOperationManager as it is in the repository: with the token statement
\* (plain, and with a string literal that holds backslash-n or backslash-d
\* among its arguments), without it, and with a token typed in by hand
OpSources ==
    {<<"x", ";", "NL", " ">> \o statement \o <<"NL", "}", "NL">> :
        statement \in {generateToken_call \o <<"mwcTokenHandler,", " ", "default", ")", ";">>,
                       generateToken_call
                       \o <<"DQUOTE", "a", "BSLASH", "n", "DQUOTE", ")", ";">>,
                       generateToken_call
                       \o <<"DQUOTE", "BSLASH", "d", "DQUOTE", ")", ";">>,
                       <<"var mwcV1TokenWithHeader = await NewApi", "(", ")", ";">>,
                       mwcToken_eq \o <<"t0", "DQUOTE", ";">>}}

\* GTSOperationManager as another version of the tool or a reformatting may
\* have left it, the token line (token t1) in place: "legacy", with no stored
\* original; "reformatted", the original stored but one space before the
\* marker; "garbled", the stored original not base64
OpLeftover(kind) ==
    LET original_line == generateToken_call \o <<"mwcTokenHandler,", " ", "default", ")", ";">>
        stored(payload) == <<" ", " ">> \o op_original_marker_start \o payload
                           \o op_original_marker_end
        line == CASE kind = "legacy" -> modified_line("t1")
                  [] kind = "reformatted" ->
                        mwcToken_eq \o <<"t1", "DQUOTE", ";", " ">> \o op_edog_marker
                        \o stored(b64encode(original_line))
                  [] kind = "garbled" -> modified_line("t1") \o stored(<<"x">>)
    IN  <<"x", ";", "NL", " ">> \o line \o <<"NL", "}", "NL">>

OpLeftovers == {OpLeftover(kind) : kind \in {"legacy", "reformatted", "garbled"}}

\* the content "git show HEAD:<file>" prints for GTSOperationManager
OpHead ==
    <<"y", ";", "NL", " ">> \o generateToken_call
    \o <<"mwcTokenHandler,", " ", "default", ")", ";", "NL", "}", "NL">>

OpRepos == {NoRepo, GitShowFails, GitShowOk(OpHead)}

InitStruct ==
    /\ NoTree
    /\ NoCache
    /\ \/ rule = "GTSBasedSparkClient" /\ origDoc \in SparkSources \cup SparkLeftovers
       \/ rule = "GTSOperationManager" /\ origDoc \in OpSources \cup OpLeftovers
    /\ doc = origDoc
    /\ prevDoc = origDoc
    /\ hist = <<>>

StructCall(op, status, content, token, repo_root, source) ==
    /\ Len(hist) < MaxOps
    /\ hist' = Append(hist, [op |-> op, status |-> status, token |-> token,
                             repo |-> repo_root.kind, source |-> source])
    /\ prevDoc' = doc
    /\ doc' = content
    /\ UNCHANGED <<origDoc, rule>>
    /\ UNCHANGED batchVars
    /\ UNCHANGED cacheVars

SparkApply ==
    /\ rule = "GTSBasedSparkClient"
    /\ \E token \in Tokens, repo_root \in Repos :
        LET r == apply_gts_spark_client_change(doc, token, repo_root)
        IN  StructCall("apply", r.status, r.content, token, repo_root, "")

SparkRevert ==
    /\ rule = "GTSBasedSparkClient"
    /\ \E repo_root \in Repos :
        LET r == revert_gts_spark_client_change(doc, repo_root)
        IN  StructCall("revert", IF r.reverted THEN "reverted" ELSE "not_reverted",
                       r.content, "", repo_root, r.source)

OpApply ==
    /\ rule = "GTSOperationManager"
    /\ \E token \in Tokens, repo_root \in OpRepos :
        LET r == apply_gts_operation_manager_change(doc, token, repo_root)
        IN  StructCall("apply", r.status, r.content, token, repo_root, "")

OpRevert ==
    /\ rule = "GTSOperationManager"
    /\ \E repo_root \in OpRepos :
        LET r == revert_gts_operation_manager_change(doc, repo_root)
        IN  StructCall("revert", IF r.reverted THEN "reverted" ELSE "not_reverted",
                       r.content, "", repo_root, r.source)

NextStruct == SparkApply \/ SparkRevert \/ OpApply \/ OpRevert

SpecStruct == InitStruct /\ [][NextStruct]_vars

-----------------------------------------------------------------------------
(* Claims about the structural transform, under SpecStruct *)

\* C3: for a content with the method signature and a balanced body, and any
\* token, apply_gts_spark_client_change followed by
\* revert_gts_spark_client_change without a repository reports the revert as
\* done and returns the original content.
C3_StructuralRoundTrip ==
    (/\ rule = "GTSBasedSparkClient"
     /\ Len(hist) = 2 /\ Ops = <<"apply", "revert">>
     /\ hist[1].status = "applied"
     /\ hist[2].repo = "none") =>
        (hist[2].status = "reverted" /\ doc = origDoc)

\* the markers of the file the harness runs on
MarkersOf(r) ==
    IF r = "GTSBasedSparkClient"
    THEN [edog |-> spark_edog_marker, start |-> spark_original_marker_start,
          end |-> spark_original_marker_end]
    ELSE [edog |-> op_edog_marker, start |-> op_original_marker_start,
          end |-> op_original_marker_end]

HasBypassMarker(content) == Contains(content, MarkersOf(rule).edog)

\* the content holds an embedded original that can be read back: a start
\* marker, an end marker after it, base64 of a text in between
EmbeddedOriginalUsable(content) ==
    LET m == MarkersOf(rule)
        from == find(content, m.start, 0) + Len(m.start)
        to == find(content, m.end, 0)
    IN  /\ Contains(content, m.start)
        /\ Contains(content, m.end)
        /\ from < to
        /\ b64decode(Slice(content, from, to)).ok

\* C17: for a content that carries the bypass marker, the structural reverts
\* (revert_gts_spark_client_change, revert_gts_operation_manager_change)
\* answer "not reverted", the content unchanged, only when the embedded
\* original cannot be used and the restore from version control is not
\* available (no repository root, or the command fails).
C17_RevertFailsAsLastResort ==
    (/\ hist # <<>>
     /\ LastCall.op = "revert"
     /\ HasBypassMarker(prevDoc)
     /\ LastCall.status = "not_reverted")
    => /\ doc = prevDoc
       /\ ~EmbeddedOriginalUsable(prevDoc)
       /\ LastCall.repo # "ok"

\* the content with every occurrence of the token value old replaced by new
TokenSwapped(content, old, new) ==
    [i \in 1..Len(content) |-> IF content[i] = old THEN new ELSE content[i]]

\* two applies in a row, the first of which put the bypass and its embedded
\* original in place
AppliedThenApplied ==
    /\ Len(hist) = 2
    /\ Ops = <<"apply", "apply">>
    /\ hist[1].status = "applied"

\* C18: when the bypass is in place with its embedded original and apply is
\* called with another token, with or without a repository, the outcome is
\* token_updated and the content returned is the content given with the token
\* value replaced and nothing else changed (both structural transforms).
C18_TokenUpdate ==
    (AppliedThenApplied /\ hist[1].token # hist[2].token)
    => /\ hist[2].status = "token_updated"
       /\ doc = TokenSwapped(prevDoc, hist[1].token, hist[2].token)

\* C19: a second apply of a structural transform with the token of a first
\* apply that returned applied answers already_applied and returns the
\* content unchanged (both structural transforms).
C19_StructuralApplyIdempotent ==
    (AppliedThenApplied /\ hist[1].token = hist[2].token)
    => /\ hist[2].status = "already_applied"
       /\ doc = prevDoc

\* the second apply on the bypass of GTSBasedSparkClient, a repository at hand
C19_Witness ==
    /\ AppliedThenApplied
    /\ rule = "GTSBasedSparkClient"
    /\ hist[1].token = hist[2].token
    /\ hist[2].repo = "ok"
    /\ hist[2].status = "already_applied"
    /\ Contains(doc, spark_edog_marker)
    /\ doc = prevDoc
    /\ doc # origDoc


\* the text between the first EDOG_ORIGINAL_START marker and the end of its line
StoredPayload(content) ==
    LET from == find(content, spark_original_marker_start, 0)
                + Len(spark_original_marker_start)
        nl == find(content, <<"NL">>, from)
    IN  Slice(content, from, IF nl = -1 THEN Len(content) ELSE nl)

\* the line that ends right before index s is blank, a comment or an attribute
DecorLineBefore(content, s) ==
    LET line == strip(Slice(content, rfind(content, <<"NL">>, s - 1) + 1, s - 1))
    IN  \/ line = <<>>
        \/ \E p \in {<<"//">>, <<"/*">>, <<"*">>, <<"[">>} : startswith(line, p)

\* the span is a method: lines of comments, attributes and blanks, then the
\* line of the signature, then a body whose braces close at the end of the span
\* and not before
IsMethodSpan(span) ==
    LET sig == find(span, method_sig, 0)
        open == find(span, <<"{">>, sig)
        depth(k) == Cardinality({j \in (open + 1)..k : span[j] = "{"})
                    - Cardinality({j \in (open + 1)..k : span[j] = "}"})
    IN  /\ sig # -1 /\ open # -1
        /\ depth(Len(span)) = 0
        /\ \A k \in (open + 1)..(Len(span) - 1) : depth(k) > 0
        /\ \A s \in 1..sig : span[s] = "NL" => DecorLineBefore(span, s)
        /\ \A s \in 1..sig : IsSpace(span[s]) \/ \E n \in s..sig : span[n] = "NL"

\* the last call was an apply on GTSBasedSparkClient that returned applied
SparkApplied ==
    /\ rule = "GTSBasedSparkClient"
    /\ hist # <<>>
    /\ LastCall.op = "apply"
    /\ LastCall.status = "applied"

\* C21: when apply_gts_spark_client_change returns applied, the payload after
\* the EDOG_ORIGINAL_START marker decodes to a span [s, e) of the content
\* given; the span is the method (its signature, its balanced body, the blank,
\* comment and attribute lines right above it, and no line further up that is
\* one of these); the content returned is the content given with that span
\* replaced, the text before s and from e on unchanged.
C21_PayloadIsRemovedSpan ==
    SparkApplied =>
        LET decoded == b64decode(StoredPayload(doc))
        IN  /\ decoded.ok
            /\ IsMethodSpan(decoded.text)
            /\ \E s \in 0..(Len(prevDoc) - Len(decoded.text)) :
                  LET e == s + Len(decoded.text)
                  IN  /\ Slice(prevDoc, s, e) = decoded.text
                      /\ s = 0 \/ (prevDoc[s] = "NL" /\ ~DecorLineBefore(prevDoc, s))
                      /\ Len(doc) >= s + (Len(prevDoc) - e)
                      /\ Slice(doc, 0, s) = Slice(prevDoc, 0, s)
                      /\ Slice(doc, Len(doc) - (Len(prevDoc) - e), Len(doc))
                         = Slice(prevDoc, e, Len(prevDoc))
                      /\ startswith(Slice(doc, s, Len(doc)),
                                    <<"NL", " ">> \o spark_original_marker_start)

\* a method with lines above it and text on both sides has been replaced
C21_Witness ==
    /\ SparkApplied
    /\ Len(hist) = 1
    /\ \E s \in 1..Len(prevDoc) :
          /\ Slice(doc, 0, s) = Slice(prevDoc, 0, s)
          /\ startswith(Slice(doc, s, Len(doc)), <<"NL", " ">> \o spark_original_marker_start)
          /\ startswith(Slice(prevDoc, s, Len(prevDoc)), <<" ", "//", " ", "doc", "NL">>)
    /\ doc[Len(doc)] = "NL"
    /\ prevDoc[Len(prevDoc)] = "NL"


\* C22: for every content that holds the original token statement and every
\* token, apply_gts_operation_manager_change followed by
\* revert_gts_operation_manager_change without a repository gives back the
\* content exactly, and no embedded-original marker is left in it.
C22_TokenLineRoundTrip ==
    (/\ rule = "GTSOperationManager"
     /\ Len(hist) = 2 /\ Ops = <<"apply", "revert">>
     /\ re_search(origDoc, generateToken_call, ";", <<")", ";">>) # -1
     /\ hist[2].repo = "none")
    => /\ doc = origDoc
       /\ ~Contains(doc, op_original_marker_start)
       /\ ~Contains(doc, op_original_marker_end)


\* the content holds both markers of the embedded original, the end marker
\* after the start marker, and what lies between them is no base64 of a text
DecodeFailure(content) ==
    LET mk == MarkersOf(rule)
        from == find(content, mk.start, 0) + Len(mk.start)
        to == find(content, mk.end, 0)
    IN  /\ Contains(content, mk.start)
        /\ Contains(content, mk.end)
        /\ from < to
        /\ ~b64decode(Slice(content, from, to)).ok

MarkersAbsent(content) ==
    \/ ~Contains(content, MarkersOf(rule).start)
    \/ ~Contains(content, MarkersOf(rule).end)

\* the last call was a structural revert, with a repository, of a content
\* that carries the bypass
RevertWithRepo ==
    /\ hist # <<>>
    /\ LastCall.op = "revert"
    /\ LastCall.repo # "none"
    /\ HasBypassMarker(prevDoc)

\* C26: the structural reverts try the embedded original first; they go on
\* to the restore from version control only when the markers are absent or
\* the payload fails to decode, and with a payload that fails to decode they
\* always go on to it.
C26_FallbackOrder ==
    RevertWithRepo =>
        /\ LastCall.source \in {"embedded", "git", "git failed"}
        /\ LastCall.source \in {"git", "git failed"} =>
              (MarkersAbsent(prevDoc) \/ DecodeFailure(prevDoc))
        /\ DecodeFailure(prevDoc) => LastCall.source \in {"git", "git failed"}

-----------------------------------------------------------------------------
(* Patch capture: difflib.unified_diff as generate_patch calls it *)

\* the artifact on disk is the sequence of its per-file diffs; generate_patch
\* never writes an empty one, so the empty sequence is the file not existing
NoPatch == <<>>

\* the context lines of a unified diff (the default n of difflib.unified_diff)
ContextLines == 3

\* text.splitlines(keepends=True)
splitlines(text) ==
    LET ends == {i \in 1..Len(text) : text[i] = "NL" \/ i = Len(text)}
        before(e) == {x \in ends : x < e}
        first(e) == IF before(e) = {} THEN 1
                    ELSE 1 + CHOOSE x \in before(e) : \A y \in before(e) : y <= x
    IN  [k \in 1..Cardinality(ends) |->
            LET e == CHOOSE x \in ends : Cardinality(before(x)) = k - 1
            IN  SubSeq(text, first(e), e)]

\* "Ensure last line has newline for proper patch format"
EnsureNewline(lines) ==
    IF lines # <<>> /\ lines[Len(lines)][Len(lines[Len(lines)])] # "NL"
    THEN [lines EXCEPT ![Len(lines)] = @ \o <<"NL">>]
    ELSE lines

\* the number of leading lines a and b share
CommonPrefix(a, b) ==
    LET differ == {i \in 1..Min(Len(a), Len(b)) : a[i] # b[i]}
    IN  IF differ = {} THEN Min(Len(a), Len(b))
        ELSE (CHOOSE i \in differ : \A j \in differ : i <= j) - 1

Reverse(a) == [i \in 1..Len(a) |-> a[Len(a) + 1 - i]]

\* the hunks of unified_diff(a, b): none when a = b, else one hunk from the first
\* to the last differing line with ContextLines lines of context around it (the
\* managed files of the model are short enough for difflib to join the changes
\* of a file into one group).  start is the 0-based first line of the hunk,
\* old and new are its lines on the a side and on the b side.
unified_diff(a, b) ==
    IF a = b THEN <<>>
    ELSE LET p == CommonPrefix(a, b)
             q == CommonPrefix(Reverse(Slice(a, p, Len(a))), Reverse(Slice(b, p, Len(b))))
             lo == Max(0, p - ContextLines)
             a_hi == Min(Len(a), Len(a) - q + ContextLines)
             b_hi == Min(Len(b), Len(b) - q + ContextLines)
         IN  <<[start |-> lo,
                old |-> Slice(a, lo, a_hi),
                new |-> Slice(b, lo, b_hi),
                trailing |-> a_hi - (Len(a) - q)]>>

FileKeys ==
    <<"LiveTableController", "LiveTableSchedulerRunController",
      "GTSOperationManager", "GTSBasedSparkClient">>
FileSet == {FileKeys[i] : i \in 1..Len(FileKeys)}

\* file_diff writing the header pair of a file whose content did not change
file_diff_headers_always(original_contents, modified_contents, rel_path) ==
    IF rel_path \notin DOMAIN original_contents \/ rel_path \notin DOMAIN modified_contents
    THEN <<>>
    ELSE LET original_lines == EnsureNewline(splitlines(original_contents[rel_path]))
             modified_lines == EnsureNewline(splitlines(modified_contents[rel_path]))
             diff == unified_diff(original_lines, modified_lines)
         IN  <<[path |-> rel_path,
                hunk |-> IF diff = <<>>
                         THEN [start |-> 0, old |-> <<>>, new |-> <<>>, trailing |-> 0]
                         ELSE diff[1]]>>

\* the diff of one file of the batch: <<>> when it is skipped
file_diff(original_contents, modified_contents, rel_path) ==
    IF rel_path \notin DOMAIN original_contents \/ rel_path \notin DOMAIN modified_contents
    THEN <<>>
    ELSE IF original_contents[rel_path] = modified_contents[rel_path] THEN <<>>
    ELSE TheOne({
            IF unified_diff(original_lines, modified_lines) = <<>> THEN <<>>
            ELSE <<[path |-> rel_path,
                    hunk |-> unified_diff(original_lines, modified_lines)[1]]>> :
            original_lines \in {EnsureNewline(splitlines(original_contents[rel_path]))},
            modified_lines \in {EnsureNewline(splitlines(modified_contents[rel_path]))}})

\* generate_patch writing the artifact whether or not there are patch lines
generate_patch_unconditional(original_contents, modified_contents) ==
    [written |-> TRUE,
     patch |-> file_diff(original_contents, modified_contents, FileKeys[1])
               \o file_diff(original_contents, modified_contents, FileKeys[2])
               \o file_diff(original_contents, modified_contents, FileKeys[3])
               \o file_diff(original_contents, modified_contents, FileKeys[4])]

\* generate_patch: the artifact it writes, or written = FALSE (nothing is written)
generate_patch(original_contents, modified_contents) ==
    LET patch_lines == file_diff(original_contents, modified_contents, FileKeys[1])
                       \o file_diff(original_contents, modified_contents, FileKeys[2])
                       \o file_diff(original_contents, modified_contents, FileKeys[3])
                       \o file_diff(original_contents, modified_contents, FileKeys[4])
    IN  IF patch_lines = <<>> THEN [written |-> FALSE]
        ELSE [written |-> TRUE, patch |-> patch_lines]

-----------------------------------------------------------------------------
(* The external command "git apply -R", by its contract: a hunk applies in   *)
(* reverse where the lines of its new side stand in the file, at the start   *)
(* of the file when the hunk starts there and at the end of the file when    *)
(* the hunk has no trailing context; a patch applies when all its hunks do,  *)
(* and nothing is written otherwise.                                         *)

\* the positions where the hunk's new side stands in the lines of the file
HunkPositions(lines, hunk, anchored) ==
    {pos \in 0..(Len(lines) - Len(hunk.new)) :
        /\ Slice(lines, pos, pos + Len(hunk.new)) = hunk.new
        /\ anchored => (hunk.start = 0 => pos = 0)
        /\ anchored => (hunk.trailing = 0 => pos + Len(hunk.new) = Len(lines))}

\* the position git takes: the one nearest to where the hunk was recorded
HunkPosition(lines, hunk, anchored) ==
    LET cands == HunkPositions(lines, hunk, anchored)
        dist(pos) == IF pos >= hunk.start THEN pos - hunk.start ELSE hunk.start - pos
    IN  CHOOSE pos \in cands :
            \A other \in cands : dist(pos) < dist(other) \/ (dist(pos) = dist(other) /\ pos <= other)

ReverseHunk(content, hunk, anchored) ==
    LET lines == splitlines(content)
        pos == HunkPosition(lines, hunk, anchored)
    IN  join(<<>>, Slice(lines, 0, pos) \o hunk.old
                   \o Slice(lines, pos + Len(hunk.new), Len(lines)))

PatchApplies(the_patch, tree, anchored) ==
    \A i \in 1..Len(the_patch) :
        HunkPositions(splitlines(tree[the_patch[i].path]), the_patch[i].hunk, anchored) # {}

PatchedPaths(the_patch) == {the_patch[i].path : i \in 1..Len(the_patch)}
EntryOf(the_patch, path) == the_patch[CHOOSE i \in 1..Len(the_patch) : the_patch[i].path = path]

\* git apply -R [--check]: returncode 0 and the files reverse-patched, or
\* returncode 1 and the files as they were
GitApplyReverse(the_patch, tree) ==
    IF PatchApplies(the_patch, tree, TRUE)
    THEN [returncode |-> 0,
          files |-> [f \in DOMAIN tree |->
                        IF f \in PatchedPaths(the_patch)
                        THEN ReverseHunk(tree[f], EntryOf(the_patch, f).hunk, TRUE)
                        ELSE tree[f]]]
    ELSE [returncode |-> 1, files |-> tree]

\* the conflict markers git apply --3way leaves in a file it could not merge
ConflictMarked(content) == <<"<<<<<<< ours", "NL">> \o content

\* git apply -R --3way, when the plain reverse-apply does not go through: the
\* outcomes git can end with.  "merged": returncode 0, the hunks taken out
\* where their lines still stand, the other lines of the files kept.
\* "conflict": returncode 1, the word conflict in the output, conflict markers
\* in the files whose hunk no longer stands, the hunk taken out of the
\* others.  "failed": returncode 1 without that word (no blob to merge with,
\* index mismatch), nothing written.
GitThreeWay(the_patch, tree, outcome) ==
    CASE outcome = "merged" ->
            [returncode |-> 0, conflict |-> FALSE,
             files |-> [f \in DOMAIN tree |->
                          IF f \in PatchedPaths(the_patch)
                          THEN ReverseHunk(tree[f], EntryOf(the_patch, f).hunk, FALSE)
                          ELSE tree[f]]]
      [] outcome = "conflict" ->
            [returncode |-> 1, conflict |-> TRUE,
             files |-> [f \in DOMAIN tree |->
                          IF f \notin PatchedPaths(the_patch) THEN tree[f]
                          ELSE IF HunkPositions(splitlines(tree[f]),
                                                EntryOf(the_patch, f).hunk, FALSE) = {}
                          THEN ConflictMarked(tree[f])
                          ELSE ReverseHunk(tree[f], EntryOf(the_patch, f).hunk, FALSE)]]
      [] outcome = "failed" ->
            [returncode |-> 1, conflict |-> FALSE, files |-> tree]

\* the outcomes of the three-way run that the state of the files allows
ThreeWayOutcomes(the_patch, tree) ==
    IF PatchApplies(the_patch, tree, FALSE) THEN {"merged", "failed"}
    ELSE {"conflict", "failed"}

-----------------------------------------------------------------------------
(* Main EDOG operations *)

\* the rules apply_all_changes runs on each controller file, in order
LiveTableController_keys == <<"auth_engine_ltc", "permission_filter_getlatestdag">>
LiveTableSchedulerRunController_keys == <<"auth_engine_ltsrc", "permission_filter_rundag">>

\* "for key in [...]": each rule applied to the content the one before left
RECURSIVE apply_smart_patterns(_, _)
apply_smart_patterns(content, keys) ==
    IF keys = <<>> THEN [content |-> content, statuses |-> <<>>]
    ELSE LET r == apply_smart_pattern(content, SMART_PATTERNS[Head(keys)])
             rest == apply_smart_patterns(r.content, Tail(keys))
         IN  [content |-> rest.content, statuses |-> <<r.status>> \o rest.statuses]

IsWarning(status) == status \in {"anchor_not_found", "context_mismatch", "pattern_not_found"}

\* what the file system does to one run of apply_all_changes: the files
\* read_file cannot read (it returns None) and the files write_file cannot
\* write (it returns False, the file stays as it was)
NoFault == [unreadable |-> {}, locked |-> {}]

\* apply_all_changes giving up at the first warning: nothing after it is
\* attempted or written, and generate_patch is not reached
apply_all_summary_aborting(tree, the_patch, original_contents, modified_contents, statuses, locked) ==
    LET warned == {i \in 1..Len(statuses) : IsWarning(statuses[i])}
        first == CHOOSE i \in warned : \A j \in warned : i <= j
        generated == generate_patch(original_contents, modified_contents)
    IN  IF warned # {}
        THEN [files |-> tree, patch |-> the_patch, patch_written |-> FALSE,
              statuses |-> SubSeq(statuses, 1, first), result |-> FALSE]
        ELSE [files |-> [f \in FileSet |->
                            IF f \in DOMAIN modified_contents /\ f \notin locked
                            THEN modified_contents[f]
                            ELSE tree[f]],
              patch |-> IF generated.written THEN generated.patch ELSE the_patch,
              patch_written |-> generated.written,
              statuses |-> statuses,
              result |-> TRUE]

\* the end of apply_all_changes: the files as written (a locked file keeps its
\* content), the artifact as generate_patch left it, the summary and the
\* value returned
apply_all_summary(tree, the_patch, original_contents, modified_contents, statuses, locked) ==
    TheOne({
        [files |-> [f \in FileSet |->
                        IF f \in DOMAIN modified_contents /\ f \notin locked
                        THEN modified_contents[f]
                        ELSE tree[f]],
         patch |-> IF generated.written THEN generated.patch ELSE the_patch,
         patch_written |-> generated.written,
         statuses |-> statuses,
         result |-> \A i \in 1..Len(statuses) : ~IsWarning(statuses[i])] :
        generated \in {generate_patch(original_contents, modified_contents)}})

\* apply_all_changes(token, repo_root) on the working tree `tree` with the
\* artifact `the_patch` on disk; repo_root stands for what "git show HEAD:"
\* answers for a file, io for what the file system does.  A file that cannot
\* be read or reads as empty is skipped ("if content:").  The four sections of
\* the function are evaluated once each (ltc, ltsrc, op, spark).
apply_all_changes(token, tree, the_patch, git_show_ok, io) ==
    LET repo_root(f) == IF git_show_ok THEN GitShowOk(pristine[f]) ELSE GitShowFails
        read == {f \in FileSet : f \notin io.unreadable /\ tree[f] # <<>>}
    IN  TheOne({
            apply_all_summary(
                tree, the_patch,
                [f \in read |-> tree[f]],
                [f \in read |->
                    CASE f = "LiveTableController" -> ltc.content
                      [] f = "LiveTableSchedulerRunController" -> ltsrc.content
                      [] f = "GTSOperationManager" -> op.content
                      [] f = "GTSBasedSparkClient" -> spark.content],
                (IF "LiveTableController" \in read THEN ltc.statuses ELSE <<>>)
                \o (IF "LiveTableSchedulerRunController" \in read
                    THEN ltsrc.statuses ELSE <<>>)
                \o (IF "GTSOperationManager" \in read THEN <<op.status>> ELSE <<>>)
                \o (IF "GTSBasedSparkClient" \in read THEN <<spark.status>> ELSE <<>>),
                io.locked) :
            ltc \in {apply_smart_patterns(tree["LiveTableController"],
                                          LiveTableController_keys)},
            ltsrc \in {apply_smart_patterns(tree["LiveTableSchedulerRunController"],
                                            LiveTableSchedulerRunController_keys)},
            op \in {apply_gts_operation_manager_change(
                        tree["GTSOperationManager"], token,
                        repo_root("GTSOperationManager"))},
            spark \in {apply_gts_spark_client_change(
                           tree["GTSBasedSparkClient"], token,
                           repo_root("GTSBasedSparkClient"))}})

\* "for key in [...]": check_smart_pattern_status of each rule on the content
smart_pattern_statuses(content, keys) ==
    [i \in 1..Len(keys) |-> check_smart_pattern_status(content, SMART_PATTERNS[keys[i]])]

\* the (desc, applied) pairs check_status collects, as the applied flags: one
\* per wrap rule that is applied or not applied, one per structural file; a
\* file that reads as empty is skipped
status_flags(tree) ==
    LET wrap_flags(f, keys) ==
            IF tree[f] = <<>> THEN <<>>
            ELSE LET results == smart_pattern_statuses(tree[f], keys)
                     decided == SelectSeq(results,
                                          LAMBDA x : x \in {"applied", "not_applied"})
                 IN  [i \in 1..Len(decided) |-> decided[i] = "applied"]
        op == tree["GTSOperationManager"]
        spark == tree["GTSBasedSparkClient"]
        has_edog_marker == Contains(op, op_edog_marker)
        has_manual_hardcode == re_search(op, mwcToken_eq, "DQUOTE", <<"DQUOTE", ";">>) # -1
    IN  wrap_flags("LiveTableController", LiveTableController_keys)
        \o wrap_flags("LiveTableSchedulerRunController", LiveTableSchedulerRunController_keys)
        \o (IF op = <<>> THEN <<>> ELSE <<has_edog_marker \/ has_manual_hardcode>>)
        \o (IF spark = <<>> THEN <<>> ELSE <<Contains(spark, spark_edog_marker)>>)

\* check_status written on top of the apply transform, saving what it returns
check_status_via_apply(tree, the_patch) ==
    LET status == status_flags(tree)
        all_applied == status # <<>> /\ \A i \in 1..Len(status) : status[i]
        any_applied == \E i \in 1..Len(status) : status[i]
    IN  [all_applied |-> all_applied,
         summary |-> IF all_applied THEN "All EDOG changes are applied"
                     ELSE IF any_applied
                     THEN "Some EDOG changes are applied (partial state)"
                     ELSE "No EDOG changes are applied",
         patch_exists |-> the_patch # NoPatch,
         files |-> [tree EXCEPT !["LiveTableController"] =
                        apply_smart_patterns(@, LiveTableController_keys).content],
         patch |-> the_patch]

\* check_status(repo_root): the value returned, the summary line printed,
\* whether it reports the patch file, and the files and the artifact it leaves
check_status(tree, the_patch) ==
    LET status == status_flags(tree)
        all_applied == status # <<>> /\ \A i \in 1..Len(status) : status[i]
        any_applied == \E i \in 1..Len(status) : status[i]
    IN  [all_applied |-> all_applied,
         summary |-> IF all_applied THEN "All EDOG changes are applied"
                     ELSE IF any_applied
                     THEN "Some EDOG changes are applied (partial state)"
                     ELSE "No EDOG changes are applied",
         patch_exists |-> the_patch # NoPatch,
         files |-> tree,
         patch |-> the_patch]

\* what the environment does to one run of apply_patch_reverse: git missing,
\* the first git command timing out, or git running; then whether the real
\* reverse-apply returns 0 after a clean check (apply_ok), how the three-way
\* run ends after a failed check (threeway) and whether the failed check said
\* "patch does not apply" (does_not_apply)
GitEnvs(the_patch, tree) ==
    {[git |-> g, apply_ok |-> TRUE, threeway |-> "failed", does_not_apply |-> FALSE] :
        g \in {"missing", "timeout"}}
    \cup (IF the_patch = NoPatch THEN {}
          ELSE IF GitApplyReverse(the_patch, tree).returncode = 0
          THEN {[git |-> "ok", apply_ok |-> a, threeway |-> "failed", does_not_apply |-> FALSE] :
                    a \in BOOLEAN}
          ELSE {[git |-> "ok", apply_ok |-> TRUE, threeway |-> o, does_not_apply |-> d] :
                    o \in ThreeWayOutcomes(the_patch, tree), d \in BOOLEAN})

NoPatchMessage ==
    "No patch file found - EDOG changes may not have been applied or were already reverted"

ConflictMessage ==
    "Merge conflicts detected. Options: 1. Resolve conflicts manually 2. git checkout -- <file> 3. Delete patch file manually"

\* apply_patch_reverse swapped: "already reverted" is tested before the conflicts
apply_patch_reverse_swapped(the_patch, tree, env) ==
    LET stay(message) == [success |-> FALSE, message |-> message,
                          patch |-> the_patch, files |-> tree]
        check_result == GitApplyReverse(the_patch, tree)
        result == GitThreeWay(the_patch, tree, env.threeway)
    IN  IF the_patch = NoPatch THEN stay(NoPatchMessage)
        ELSE IF env.git = "timeout" THEN stay("Git apply timed out")
        ELSE IF env.git = "missing" THEN stay("Git not found")
        ELSE IF check_result.returncode = 0
        THEN IF env.apply_ok
             THEN [success |-> TRUE, message |-> "Successfully reverted all EDOG changes",
                   patch |-> NoPatch, files |-> check_result.files]
             ELSE stay("Failed to apply patch")
        ELSE IF result.returncode = 0
        THEN [success |-> TRUE, message |-> "Successfully reverted (merged with your edits)",
              patch |-> NoPatch, files |-> result.files]
        ELSE IF env.does_not_apply
        THEN [success |-> TRUE, message |-> "EDOG changes already reverted",
              patch |-> NoPatch, files |-> result.files]
        ELSE IF result.conflict
        THEN [success |-> FALSE, message |-> ConflictMessage,
              patch |-> the_patch, files |-> result.files]
        ELSE [success |-> FALSE, message |-> "Failed to revert",
              patch |-> the_patch, files |-> result.files]

\* apply_patch_reverse(repo_root): (success, message), the artifact and the
\* files it leaves
apply_patch_reverse(the_patch, tree, env) ==
    LET stay(message) == [success |-> FALSE, message |-> message,
                          patch |-> the_patch, files |-> tree]
        check_result == GitApplyReverse(the_patch, tree)
        result == GitThreeWay(the_patch, tree, env.threeway)
    IN  IF the_patch = NoPatch THEN stay(NoPatchMessage)
        ELSE IF env.git = "timeout" THEN stay("Git apply timed out")
        ELSE IF env.git = "missing" THEN stay("Git not found")
        ELSE IF check_result.returncode = 0
        THEN IF env.apply_ok
             THEN [success |-> TRUE, message |-> "Successfully reverted all EDOG changes",
                   patch |-> NoPatch, files |-> check_result.files]
             ELSE stay("Failed to apply patch")
        ELSE IF result.returncode = 0
        THEN [success |-> TRUE, message |-> "Successfully reverted (merged with your edits)",
              patch |-> NoPatch, files |-> result.files]
        ELSE IF result.conflict
        THEN [success |-> FALSE, message |-> ConflictMessage,
              patch |-> the_patch, files |-> result.files]
        ELSE IF env.does_not_apply
        THEN [success |-> TRUE, message |-> "EDOG changes already reverted",
              patch |-> NoPatch, files |-> result.files]
        ELSE [success |-> FALSE, message |-> "Failed to revert",
              patch |-> the_patch, files |-> result.files]

\* revert_all_changes(repo_root): prints the message, returns success
revert_all_changes(the_patch, tree, env) == apply_patch_reverse(the_patch, tree, env)

-----------------------------------------------------------------------------
(* The working tree *)

\* the managed files of a repository; nl: the files end with a line feed;
\* drifted: upstream code has moved on (an anchor gone, a context renamed, the
\* token statement and the method no longer there)
SourceTree(nl, drifted) ==
    LET eof == IF nl THEN <<"NL">> ELSE <<>>
    IN  [LiveTableController |->
            <<" ", "[AuthenticationEngine]", "NL",
              " ", "public", " ", "class", " ", "LiveTableController", "NL",
              " ", "{", "NL">>
            \o (IF drifted THEN <<>>
                ELSE <<" ", " ", "[RequiresPermissionFilter(Permissions.ReadAll)]", "NL">>)
            \o <<" ", " ", "public", " ", "getLatestDag", "(", ")", "NL",
                 " ", "}">> \o eof,
         LiveTableSchedulerRunController |->
            <<" ", "[AuthenticationEngine]", "NL",
              " ", "public", " ", "class", " ",
              IF drifted THEN "LiveTableRunController" ELSE "LiveTableSchedulerRunController",
              "NL", " ", "{", "NL",
              " ", " ", "[MwcV2RequirePermissionsFilter(", "X)]", "NL",
              " ", " ", "public", " ", "runDAG", "(", ")", "NL",
              " ", "}">> \o eof,
         GTSOperationManager |->
            <<"x", ";", "NL", " ">>
            \o (IF drifted THEN <<"var mwcV1TokenWithHeader = await NewApi", "(">>
                ELSE generateToken_call)
            \o <<"mwcTokenHandler,", " ", "default", ")", ";", "NL", "}">> \o eof,
         GTSBasedSparkClient |->
            <<"x", ";", "NL", " ", "//", " ", "doc", "NL", " ">>
            \o (IF drifted THEN <<"protected async virtual Task<Token> RenamedAsync()">>
                ELSE method_sig)
            \o <<"NL", " ", "{", "NL", " ", "x", ";", "NL", " ", "}", "NL", "}">> \o eof]

SourceTrees == {SourceTree(nl, drifted) : nl \in BOOLEAN, drifted \in BOOLEAN}

\* a line a developer types into a managed file
user_line == <<"//", " ", "user edit">>

Init ==
    /\ doc = <<>> /\ prevDoc = <<>> /\ origDoc = <<>> /\ rule = <<>> /\ hist = <<>>
    /\ NoCache
    /\ pristine \in SourceTrees
    /\ files = pristine
    /\ patch = NoPatch
    /\ log = <<>>
    /\ prevFiles = pristine
    /\ prevPatch = NoPatch
    /\ proc = Idle

Step(entry, new_files, new_patch) ==
    /\ log' = Append(log, entry)
    /\ prevFiles' = files
    /\ prevPatch' = patch
    /\ files' = new_files
    /\ patch' = new_patch
    /\ UNCHANGED <<pristine, proc>>
    /\ UNCHANGED harnessVars
    /\ UNCHANGED cacheVars

\* what one run of apply_all_changes leaves in the log: what it printed and
\* returned, and what the environment did to it
ApplyEntry(token, git_show_ok, io, r) ==
    [op |-> "apply", token |-> token, success |-> r.result,
     message |-> IF r.patch_written THEN "Patch file saved" ELSE "no patch written",
     statuses |-> r.statuses,
     env |-> [git_show_ok |-> git_show_ok, unreadable |-> io.unreadable,
              locked |-> io.locked]]

\* the daemon (start, token refresh) or a fresh process applies the changes
ApplyAllChanges ==
    /\ Len(log) < MaxBatchOps
    /\ \E token \in Tokens, git_show_ok \in BOOLEAN :
        \E r \in {apply_all_changes(token, files, patch, git_show_ok, NoFault)} :
            Step(ApplyEntry(token, git_show_ok, NoFault, r), r.files, r.patch)

\* edog --revert, or the daemon shutting down
RevertAllChanges ==
    /\ Len(log) < MaxBatchOps
    /\ \E env \in GitEnvs(patch, files) :
        \E r \in {revert_all_changes(patch, files, env)} :
            Step([op |-> "revert", token |-> "", success |-> r.success,
                  message |-> r.message, env |-> env],
                 r.files, r.patch)

\* edog --status
CheckStatus ==
    /\ Len(log) < MaxBatchOps
    /\ \E r \in {check_status(files, patch)} :
        Step([op |-> "status", token |-> "", success |-> r.all_applied,
              message |-> r.summary, env |-> <<r.patch_exists>>],
             r.files, r.patch)

EditCount == Cardinality({i \in 1..Len(log) : log[i].op = "edit"})

\* a developer adds a line at the top or at the bottom of a managed file, or
\* types over its first line
EditKinds == {"top", "bottom", "first_line"}

edit(content, kind) ==
    CASE kind = "top" -> user_line \o <<"NL">> \o content
      [] kind = "bottom" ->
            IF content # <<>> /\ content[Len(content)] = "NL"
            THEN content \o user_line \o <<"NL">>
            ELSE content \o <<"NL">> \o user_line
      [] kind = "first_line" ->
            user_line \o Slice(content, find(content, <<"NL">>, 0), Len(content))

ManualEdit ==
    \E f \in FileSet, kind \in EditKinds :
        /\ Len(log) < MaxBatchOps
        /\ EditCount < MaxEdits
        /\ Step([op |-> "edit", token |-> "", success |-> TRUE, message |-> f, env |-> <<kind>>],
                [files EXCEPT ![f] = edit(@, kind)],
                patch)

Next == ApplyAllChanges \/ RevertAllChanges \/ ManualEdit \/ CheckStatus

Spec == Init /\ [][Next]_vars

-----------------------------------------------------------------------------
(* The batch under file-system faults: apply_all_changes on trees that have  *)
(* moved on, with a file that cannot be read or cannot be written            *)

MaxFaultOps == 2    \* runs of apply_all_changes in one run under faults

\* at most one file of the run is unreadable or locked
IOFaults ==
    {NoFault}
    \cup {[unreadable |-> {f}, locked |-> {}] : f \in FileSet}
    \cup {[unreadable |-> {}, locked |-> {f}] : f \in FileSet}

\* GTSBasedSparkClient with no method the bypass can replace: the method
\* declared without a body, a body whose braces do not close, and a file
\* whose bypass is in place (token t1) while the method has been renamed
SparkVariant(kind) ==
    LET head == <<"x", ";", "NL", " ", "//", " ", "doc", "NL", " ">>
        bypassed == apply_fresh_spark_bypass(
                        head \o method_sig
                        \o <<"NL", " ", "{", "NL", " ", "x", ";", "NL", " ", "}", "NL", "}", "NL">>,
                        "t1").content
    IN  CASE kind = "no_body" -> head \o method_sig \o <<";", "NL">>
          [] kind = "unbalanced" ->
                head \o method_sig \o <<"NL", " ", "{", "NL", " ", "x", "{", "x", "}", "NL">>
          [] kind = "renamed_under_bypass" ->
                [i \in 1..Len(bypassed) |->
                    IF bypassed[i] = method_sig[1] THEN renamed_sig[1] ELSE bypassed[i]]

SparkVariants == {"no_body", "unbalanced", "renamed_under_bypass"}

FaultTrees ==
    SourceTrees
    \cup {[SourceTree(TRUE, FALSE) EXCEPT !["GTSBasedSparkClient"] = SparkVariant(kind)] :
            kind \in SparkVariants}

InitFaults ==
    /\ doc = <<>> /\ prevDoc = <<>> /\ origDoc = <<>> /\ rule = <<>> /\ hist = <<>>
    /\ NoCache
    /\ pristine \in FaultTrees
    /\ files = pristine
    /\ patch = NoPatch
    /\ log = <<>>
    /\ prevFiles = pristine
    /\ prevPatch = NoPatch
    /\ proc = Idle

ApplyWithFaults ==
    /\ Len(log) < MaxFaultOps
    /\ \E token \in Tokens, git_show_ok \in BOOLEAN, io \in IOFaults :
        \E r \in {apply_all_changes(token, files, patch, git_show_ok, io)} :
            Step(ApplyEntry(token, git_show_ok, io, r), r.files, r.patch)

NextFaults == ApplyWithFaults

SpecFaults == InitFaults /\ [][NextFaults]_vars

-----------------------------------------------------------------------------
(* The batch calls as a process: a call runs section by section, waits on    *)
(* the external git commands it starts, and the process can exit in the      *)
(* middle of it.  What the call holds in memory (original_contents,          *)
(* modified_contents, the statuses) is part of proc and is gone at the exit. *)

MaxProcOps == 3     \* batch calls started in one run of the process model

\* subprocess.run(...) of a git command: timeout is the timeout= argument in
\* seconds, 0 when the call passes none
NoCommand == [name |-> "none", timeout |-> 0]

\* the transform of a structural file reaches "git show HEAD:<file>": the
\* bypass is in place with another token and no stored original lets the
\* token be swapped (repo_root is always given by the batch)
invokes_git_show(f, content, token) ==
    IF f = "GTSOperationManager"
    THEN /\ ~Contains(content, modified_line(token))
         /\ Contains(content, op_edog_marker)
         /\ ~(/\ Contains(content, op_original_marker_start)
              /\ Contains(content, op_original_marker_end)
              /\ re_sub(content, mwcToken_eq, "DQUOTE",
                        <<"DQUOTE", ";", " ", " ">> \o op_edog_marker,
                        modified_line(token)) # content)
    ELSE /\ f = "GTSBasedSparkClient"
         /\ Contains(content, spark_edog_marker)
         /\ ~Contains(content, hardcodedToken_eq \o <<token, "DQUOTE">>)
         /\ ~(/\ Contains(content, spark_original_marker_start)
              /\ Contains(content, spark_original_marker_end)
              /\ re_sub(content, hardcodedToken_eq, "DQUOTE", <<"DQUOTE", ";">>,
                        hardcodedToken_eq \o <<token, "DQUOTE", ";">>) # content)

\* one of the four sections of apply_all_changes on the content it read: the
\* content it writes and the statuses it records
apply_section(f, content, token, repo_root) ==
    CASE f = "LiveTableController" ->
            apply_smart_patterns(content, LiveTableController_keys)
      [] f = "LiveTableSchedulerRunController" ->
            apply_smart_patterns(content, LiveTableSchedulerRunController_keys)
      [] f = "GTSOperationManager" ->
            LET r == apply_gts_operation_manager_change(content, token, repo_root)
            IN  [content |-> r.content, statuses |-> <<r.status>>]
      [] f = "GTSBasedSparkClient" ->
            LET r == apply_gts_spark_client_change(content, token, repo_root)
            IN  [content |-> r.content, statuses |-> <<r.status>>]

InitProc ==
    /\ doc = <<>> /\ prevDoc = <<>> /\ origDoc = <<>> /\ rule = <<>> /\ hist = <<>>
    /\ NoCache
    /\ pristine \in SourceTrees
    /\ files = pristine
    /\ patch = NoPatch
    /\ log = <<>>
    /\ prevFiles = pristine
    /\ prevPatch = NoPatch
    /\ proc = Idle

\* a batch call begins: the process leaves Idle
Begin(new_proc) ==
    /\ proc' = new_proc
    /\ prevFiles' = files
    /\ prevPatch' = patch
    /\ UNCHANGED <<files, patch, pristine, log>>
    /\ UNCHANGED harnessVars
    /\ UNCHANGED cacheVars

\* a batch call goes on
Continue(new_proc, new_files) ==
    /\ proc' = new_proc
    /\ files' = new_files
    /\ UNCHANGED <<patch, pristine, log, prevFiles, prevPatch>>
    /\ UNCHANGED harnessVars
    /\ UNCHANGED cacheVars

\* a batch call returns, or the process is gone
Return(entry, new_files, new_patch) ==
    /\ proc' = Idle
    /\ log' = Append(log, entry)
    /\ files' = new_files
    /\ patch' = new_patch
    /\ UNCHANGED <<pristine, prevFiles, prevPatch>>
    /\ UNCHANGED harnessVars
    /\ UNCHANGED cacheVars

\* apply_all_changes(token, repo_root) is called
ApplyStart ==
    /\ proc = Idle
    /\ Len(log) < MaxProcOps
    /\ \E token \in Tokens :
        Begin([op |-> "apply", token |-> token, pc |-> 1,
               original_contents |-> <<>>, modified_contents |-> <<>>,
               statuses |-> <<>>, git |-> <<>>, command |-> NoCommand])

\* the section pc has its transform run and its file written and the call
\* moves on to the next section; answers: what "git show" answered, if asked
SectionDone(f, r, answers) ==
    Continue([proc EXCEPT
                 !.pc = @ + 1,
                 !.original_contents =
                    [g \in DOMAIN @ \cup {f} |-> IF g = f THEN files[f] ELSE @[g]],
                 !.modified_contents =
                    [g \in DOMAIN @ \cup {f} |-> IF g = f THEN r.content ELSE @[g]],
                 !.statuses = @ \o r.statuses,
                 !.git = @ \o answers,
                 !.command = NoCommand],
             [files EXCEPT ![f] = r.content])

\* the next section of apply_all_changes: the file is read; its transform
\* either runs to its end, the file being written, or starts
\* "git show HEAD:<file>" (subprocess.run without timeout=) and waits
ApplySection ==
    /\ proc.op = "apply"
    /\ proc.pc \in 1..Len(FileKeys)
    /\ proc.command = NoCommand
    /\ \E f \in {FileKeys[proc.pc]} :
        IF files[f] = <<>>
        THEN Continue([proc EXCEPT !.pc = @ + 1], files)
        ELSE IF invokes_git_show(f, files[f], proc.token)
        THEN Continue([proc EXCEPT !.command = [name |-> "git show", timeout |-> 0]], files)
        ELSE \E r \in {apply_section(f, files[f], proc.token, NoRepo)} :
                SectionDone(f, r, <<>>)

\* "git show HEAD:<file>" returns, with the file's content or with an error
GitShowReturns ==
    /\ proc.op = "apply"
    /\ proc.command.name = "git show"
    /\ \E ok \in BOOLEAN, f \in {FileKeys[proc.pc]} :
        \E r \in {apply_section(f, files[f], proc.token,
                                IF ok THEN GitShowOk(pristine[f]) ELSE GitShowFails)} :
            SectionDone(f, r, <<ok>>)

\* generate_patch, the summary, return
ApplyFinish ==
    /\ proc.op = "apply"
    /\ proc.pc = Len(FileKeys) + 1
    /\ \E r \in {apply_all_summary(files, patch, proc.original_contents,
                                   proc.modified_contents, proc.statuses, {})} :
        Return(ApplyEntry(proc.token, \A i \in 1..Len(proc.git) : proc.git[i], NoFault, r),
               r.files, r.patch)

\* revert_all_changes(repo_root) is called: without an artifact
\* apply_patch_reverse returns at once, else it starts
\* "git apply -R --check" (timeout=30)
RevertStart ==
    /\ proc = Idle
    /\ Len(log) < MaxProcOps
    /\ IF patch = NoPatch
       THEN /\ prevFiles' = files
            /\ prevPatch' = patch
            /\ proc' = Idle
            /\ log' = Append(log, [op |-> "revert", token |-> "", success |-> FALSE,
                                   message |-> NoPatchMessage, env |-> [git |-> "not run"]])
            /\ UNCHANGED <<files, patch, pristine>>
            /\ UNCHANGED harnessVars
            /\ UNCHANGED cacheVars
       ELSE Begin([op |-> "revert", step |-> "check", env |-> [git |-> "ok"],
                   command |-> [name |-> "git apply -R --check", timeout |-> 30]])

\* a git command of apply_patch_reverse returns: after the check the real
\* reverse-apply or the three-way run is started (timeout=30 each); after
\* these the call returns
GitApplyReturns ==
    /\ proc.op = "revert"
    /\ IF proc.step = "check"
       THEN \E env \in {e \in GitEnvs(patch, files) : e.git = "ok"} :
               Continue([proc EXCEPT
                            !.step = "apply", !.env = env,
                            !.command =
                               [name |-> IF GitApplyReverse(patch, files).returncode = 0
                                         THEN "git apply -R" ELSE "git apply -R --3way",
                                timeout |-> 30]],
                        files)
       ELSE \E r \in {revert_all_changes(patch, files, proc.env)} :
               Return([op |-> "revert", token |-> "", success |-> r.success,
                       message |-> r.message, env |-> proc.env],
                      r.files, r.patch)

\* check_status(repo_root) is called: with some change applied it goes on to
\* warn_uncommitted_edog_changes, which starts "git status --porcelain"
\* (timeout=10)
StatusStart ==
    /\ proc = Idle
    /\ Len(log) < MaxProcOps
    /\ \E r \in {check_status(files, patch)} :
        IF r.summary = "No EDOG changes are applied"
        THEN /\ prevFiles' = files
             /\ prevPatch' = patch
             /\ proc' = Idle
             /\ log' = Append(log, [op |-> "status", token |-> "", success |-> r.all_applied,
                                    message |-> r.summary,
                                    env |-> [patch_exists |-> r.patch_exists,
                                             git |-> "not run"]])
             /\ UNCHANGED <<files, patch, pristine>>
             /\ UNCHANGED harnessVars
             /\ UNCHANGED cacheVars
        ELSE Begin([op |-> "status", result |-> r,
                    command |-> [name |-> "git status --porcelain", timeout |-> 10]])

\* "git status --porcelain" returns; the warning is printed or not, and
\* check_status returns
GitStatusReturns ==
    /\ proc.op = "status"
    /\ Return([op |-> "status", token |-> "", success |-> proc.result.all_applied,
               message |-> proc.result.summary,
               env |-> [patch_exists |-> proc.result.patch_exists, git |-> "ok"]],
              files, patch)

\* subprocess.TimeoutExpired: the command ran past its timeout= and is
\* killed.  apply_patch_reverse returns (False, "Git apply timed out");
\* check_git_status swallows the exception and check_status returns
TimeoutExpired ==
    /\ proc # Idle
    /\ proc.command.timeout > 0
    /\ IF proc.op = "revert"
       THEN Return([op |-> "revert", token |-> "", success |-> FALSE,
                    message |-> "Git apply timed out", env |-> [git |-> "timeout"]],
                   files, patch)
       ELSE Return([op |-> "status", token |-> "", success |-> proc.result.all_applied,
                    message |-> proc.result.summary,
                    env |-> [patch_exists |-> proc.result.patch_exists, git |-> "timeout"]],
                   files, patch)

\* the process exits in the middle of a call (killed, closed terminal, power
\* loss): the files and the artifact stay as they are on disk
ProcessExits ==
    /\ proc # Idle
    /\ Return([op |-> "exit", token |-> "", success |-> FALSE, message |-> proc.op,
               env |-> [git |-> "not run"],
               written |-> {f \in FileSet : files[f] # prevFiles[f]}],
              files, patch)

NextProc ==
    \/ ApplyStart \/ ApplySection \/ GitShowReturns \/ ApplyFinish
    \/ RevertStart \/ GitApplyReturns
    \/ StatusStart \/ GitStatusReturns
    \/ TimeoutExpired \/ ProcessExits

SpecProc == InitProc /\ [][NextProc]_vars

-----------------------------------------------------------------------------
(* Token caching: the file .edog-token-cache holds base64("<expiry>|<token>") *)

\* f"{expiry_timestamp}" for the timestamps of the model
format_float(x) ==
    CASE x = 400 -> "400.0"
      [] x = 1000 -> "1000.0"

\* float(text): the number a numeral stands for; anything else raises
\* ValueError (ok = FALSE)
float(text) ==
    CASE text = <<"400.0">> -> [ok |-> TRUE, value |-> 400]
      [] text = <<"1000.0">> -> [ok |-> TRUE, value |-> 1000]
      [] OTHER -> [ok |-> FALSE, value |-> 0]

\* cache_token(token, expiry_timestamp): the file it leaves and the value it
\* returns; write_ok: whether write_text went through
cache_token(file, token, expiry_timestamp, write_ok) ==
    LET data == <<format_float(expiry_timestamp), "|">> \o token
        encoded == b64encode(data)
    IN  IF write_ok THEN [file |-> File(encoded), result |-> TRUE]
        ELSE [file |-> file, result |-> FALSE]

\* (None, None)
NoToken == [found |-> FALSE, token |-> <<>>, expiry |-> 0]

\* load_cached_token comparing the time with the expiry itself
load_cached_token_no_buffer(file, the_time, unlink_ok) ==
    LET unlinked == IF unlink_ok THEN NoFile ELSE file
        corrupted == [result |-> NoToken, file |-> unlinked]
    IN  IF file = NoFile THEN [result |-> NoToken, file |-> NoFile]
        ELSE LET data == b64decode(file.content)
             IN  IF ~data.ok THEN corrupted
                 ELSE LET bar == find(data.text, <<"|">>, 0)
                      IN  IF bar = -1 THEN corrupted
                          ELSE LET expiry_timestamp == float(Slice(data.text, 0, bar))
                                   token == Slice(data.text, bar + 1, Len(data.text))
                               IN  IF ~expiry_timestamp.ok THEN corrupted
                                   ELSE IF the_time < expiry_timestamp.value
                                   THEN [result |-> [found |-> TRUE, token |-> token,
                                                     expiry |-> expiry_timestamp.value],
                                         file |-> file]
                                   ELSE [result |-> NoToken, file |-> unlinked]

\* load_cached_token(): (token, expiry) or (None, None), and the cache file
\* it leaves.  the_time is time.time(); unlink_ok: whether cache_path.unlink()
\* goes through (when it raises in the expired branch the handler of the
\* corrupted cache tries once more and passes)
load_cached_token(file, the_time, unlink_ok) ==
    LET unlinked == IF unlink_ok THEN NoFile ELSE file
        corrupted == [result |-> NoToken, file |-> unlinked]
    IN  IF file = NoFile THEN [result |-> NoToken, file |-> NoFile]
        ELSE LET data == b64decode(file.content)
             IN  IF ~data.ok THEN corrupted
                 ELSE LET bar == find(data.text, <<"|">>, 0)
                      IN  IF bar = -1 THEN corrupted
                          ELSE LET expiry_timestamp == float(Slice(data.text, 0, bar))
                                   token == Slice(data.text, bar + 1, Len(data.text))
                               IN  IF ~expiry_timestamp.ok THEN corrupted
                                   ELSE IF the_time < expiry_timestamp.value - 300
                                   THEN [result |-> [found |-> TRUE, token |-> token,
                                                     expiry |-> expiry_timestamp.value],
                                         file |-> file]
                                   ELSE [result |-> NoToken, file |-> unlinked]

\* the tokens, expiry timestamps and times of the harness: a token with a "|"
\* in it; times 301, 300 and 299 seconds before an expiry, at it and after it
CacheTokens == { <<"t1">>, <<"t", "|", "2">> }
Expiries == {400, 1000}
Times == {0, 99, 100, 101, 400, 699, 700, 1000}

\* cache files nobody wrote with cache_token: no base64, base64 of a text
\* without "|", of a text whose expiry is no number, and the empty file
CorruptFiles ==
    { File(<<"garbage">>),
      File(b64encode(<<"t1">>)),
      File(b64encode(<<"soon", "|", "t1">>)),
      File(<<>>) }

InitCache ==
    /\ NoTree
    /\ doc = <<>> /\ prevDoc = <<>> /\ origDoc = <<>> /\ rule = <<>> /\ hist = <<>>
    /\ cache \in {NoFile} \cup CorruptFiles
    /\ now \in Times

CacheCall(entry, new_file) ==
    /\ Len(hist) < MaxOps
    /\ hist' = Append(hist, entry)
    /\ cache' = new_file
    /\ UNCHANGED <<doc, prevDoc, origDoc, rule, now>>
    /\ UNCHANGED batchVars

\* the daemon caches a token it has fetched
CacheToken ==
    \E token \in CacheTokens, expiry \in Expiries, write_ok \in BOOLEAN :
        \E r \in {cache_token(cache, token, expiry, write_ok)} :
            CacheCall([op |-> "cache_token", at |-> now, before |-> cache, after |-> r.file,
                       unlink_ok |-> TRUE, result |-> NoToken],
                      r.file)

\* the daemon starts and looks for a cached token
LoadCachedToken ==
    \E unlink_ok \in BOOLEAN :
        \E r \in {load_cached_token(cache, now, unlink_ok)} :
            CacheCall([op |-> "load_cached_token", at |-> now, before |-> cache,
                       after |-> r.file, unlink_ok |-> unlink_ok, result |-> r.result],
                      r.file)

\* time passes
Tick ==
    /\ \E t \in Times : t > now /\ now' = t
    /\ UNCHANGED <<cache, harnessVars, batchVars>>

NextCache == CacheToken \/ LoadCachedToken \/ Tick

SpecCache == InitCache /\ [][NextCache]_vars

-----------------------------------------------------------------------------
(* The daemon: run_daemon from its first apply_all_changes to its exit.  The  *)
(* token comes from the excluded token flow; the launched service is a child  *)
(* process that can end on its own.  proc.service_process is the local        *)
(* variable of that name: "none" for None, "running" for a Popen whose poll() *)
(* is None, "exited" for a Popen whose poll() is not None.                    *)

MaxRefreshes == 1    \* token refreshes in one run of the daemon

\* the cache file a daemon may find when it starts: none, or the token of an
\* earlier run
FoundCaches == {NoFile, cache_token(NoFile, <<"t1">>, 1000, TRUE).file}

\* the cache file after the daemon has fetched a token: parse_jwt_expiry gave
\* no expiry and nothing is cached, or cache_token has run
FetchedCaches(file, token) ==
    {file} \cup {cache_token(file, <<token>>, expiry, write_ok).file :
                    expiry \in Expiries, write_ok \in BOOLEAN}

InitDaemon ==
    /\ doc = <<>> /\ prevDoc = <<>> /\ origDoc = <<>> /\ rule = <<>> /\ hist = <<>>
    /\ cache \in FoundCaches
    /\ now \in {0, 700}
    /\ pristine \in SourceTrees
    /\ files = pristine
    /\ patch = NoPatch
    /\ log = <<>>
    /\ prevFiles = pristine
    /\ prevPatch = NoPatch
    /\ proc = Idle

\* one step of the daemon: where it stands now, what it reported, what it
\* left on disk
DaemonStep(new_proc, entries, new_files, new_patch, new_cache) ==
    /\ proc' = new_proc
    /\ log' = log \o entries
    /\ prevFiles' = files
    /\ prevPatch' = patch
    /\ files' = new_files
    /\ patch' = new_patch
    /\ cache' = new_cache
    /\ UNCHANGED now
    /\ UNCHANGED pristine
    /\ UNCHANGED harnessVars

\* a step that leaves the token cache alone
Daemon(new_proc, entries, new_files, new_patch) ==
    DaemonStep(new_proc, entries, new_files, new_patch, cache)

DaemonEntry(op, success, message) ==
    [op |-> op, token |-> "", success |-> success, message |-> message, env |-> <<>>]

\* run_daemon takes the cached token, or fetches one and caches it, and
\* applies the changes; the return value of apply_all_changes only decides
\* about a printed warning
DaemonStart ==
    /\ proc = Idle
    /\ log = <<>>
    /\ \E unlink_ok \in BOOLEAN, launch_service \in BOOLEAN, git_show_ok \in BOOLEAN :
        \E cached \in {load_cached_token(cache, now, unlink_ok)} :
            \E mwc_token \in IF cached.result.found THEN {cached.result.token[1]} ELSE Tokens :
                \E new_cache \in IF cached.result.found THEN {cached.file}
                                  ELSE FetchedCaches(cached.file, mwc_token) :
                    \E r \in {apply_all_changes(mwc_token, files, patch, git_show_ok, NoFault)} :
                        DaemonStep([op |-> "daemon",
                                    pc |-> IF launch_service THEN "launch" ELSE "monitor",
                                    service_process |-> "none", refreshes |-> 0],
                                   <<ApplyEntry(mwc_token, git_show_ok, NoFault, r)>>,
                                   r.files, r.patch, new_cache)

\* start_flt_service returns the process, or None when it could not start it
StartFltService ==
    /\ proc # Idle /\ proc.pc = "launch"
    /\ \E started \in BOOLEAN :
        Daemon([proc EXCEPT !.pc = "monitor",
                            !.service_process = IF started THEN "running" ELSE "none"],
               <<>>, files, patch)

\* the service ends on its own while the daemon is in its loop
ServiceExits ==
    /\ proc # Idle /\ proc.pc = "monitor"
    /\ proc.service_process = "running"
    /\ Daemon([proc EXCEPT !.service_process = "exited"], <<>>, files, patch)

\* one turn of the monitor loop: a service that has exited is forgotten; when
\* the token is about to expire a new one is fetched and, if that worked,
\* cached and applied
MonitorLoop ==
    /\ proc # Idle /\ proc.pc = "monitor"
    /\ \E seen \in {[proc EXCEPT !.service_process =
                                    IF @ = "exited" THEN "none" ELSE @]} :
        \/ Daemon(seen, <<>>, files, patch)
        \/ /\ proc.refreshes < MaxRefreshes
           /\ \E new_token \in Tokens, git_show_ok \in BOOLEAN :
                \E new_cache \in FetchedCaches(cache, new_token) :
                    \E r \in {apply_all_changes(new_token, files, patch,
                                                 git_show_ok, NoFault)} :
                        DaemonStep([seen EXCEPT !.refreshes = @ + 1],
                                   <<ApplyEntry(new_token, git_show_ok, NoFault, r)>>,
                                   r.files, r.patch, new_cache)

\* the handler going straight to the revert, the service left as it is
KeyboardInterrupt_revert_first ==
    /\ proc # Idle /\ proc.pc = "monitor"
    /\ Daemon([proc EXCEPT !.pc = "revert"],
              <<DaemonEntry("interrupt", TRUE, proc.service_process)>>, files, patch)

\* Ctrl+C in the monitor loop: the handler first turns to the service, if
\* service_process is set
KeyboardInterrupt ==
    /\ proc # Idle /\ proc.pc = "monitor"
    /\ Daemon([proc EXCEPT !.pc = IF proc.service_process # "none" THEN "stop" ELSE "revert"],
              <<DaemonEntry("interrupt", TRUE, proc.service_process)>>, files, patch)

\* stop_flt_service: a process that has ended already needs nothing; else
\* terminate() is sent and the daemon waits (timeout 10 s, then kill and 5 s)
StopFltService ==
    /\ proc # Idle /\ proc.pc = "stop"
    /\ IF proc.service_process = "exited"
       THEN Daemon([proc EXCEPT !.pc = "revert", !.service_process = "none"],
                   <<DaemonEntry("stop", TRUE, "already terminated")>>, files, patch)
       ELSE Daemon([proc EXCEPT !.pc = "wait"], <<>>, files, patch)

\* the wait of stop_flt_service ends: the service stopped, was killed, or
\* could not be stopped (the exception is caught, False is returned and
\* ignored by the handler)
ServiceStopped ==
    /\ proc # Idle /\ proc.pc = "wait"
    /\ \E outcome \in {"Service stopped gracefully", "Service killed", "Error stopping service"} :
        Daemon([proc EXCEPT !.pc = "revert",
                            !.service_process =
                                IF outcome = "Error stopping service" THEN "running" ELSE "none"],
               <<DaemonEntry("stop", outcome # "Error stopping service", outcome)>>,
               files, patch)

\* Ctrl+C once more while stop_flt_service waits: KeyboardInterrupt is not an
\* Exception, no handler is left, run_daemon is left by the exception
InterruptedAgain ==
    /\ proc # Idle /\ proc.pc = "wait"
    /\ Daemon([proc EXCEPT !.pc = "exited"],
              <<DaemonEntry("exit", FALSE, "KeyboardInterrupt")>>, files, patch)

\* the handler reverts the code changes and run_daemon returns 0
RevertOnShutdown ==
    /\ proc # Idle /\ proc.pc = "revert"
    /\ \E env \in GitEnvs(patch, files) :
        \E r \in {revert_all_changes(patch, files, env)} :
            Daemon([proc EXCEPT !.pc = "done"],
                   <<[op |-> "revert", token |-> "", success |-> r.success,
                      message |-> r.message, env |-> env]>>,
                   r.files, r.patch)

NextDaemon ==
    \/ DaemonStart \/ StartFltService \/ ServiceExits \/ MonitorLoop
    \/ KeyboardInterrupt \/ StopFltService \/ ServiceStopped \/ InterruptedAgain
    \/ RevertOnShutdown

SpecDaemon == InitDaemon /\ [][NextDaemon]_vars

-----------------------------------------------------------------------------
(* Claims about the batch engine *)

LastEntry == log[Len(log)]

\* the last step was a revert that found an artifact and ran git
RevertRan ==
    /\ log # <<>>
    /\ LastEntry.op = "revert"
    /\ prevPatch # NoPatch
    /\ LastEntry.env.git = "ok"

CheckPassed == GitApplyReverse(prevPatch, prevFiles).returncode = 0

\* C4: after apply_all_changes with one token, apply_all_changes with a
\* different token and a revert_all_changes that reports success, with no
\* manual edit in between, every managed file has the content it had before
\* the first apply.
C4_RestoreAfterBatches ==
    ( /\ Len(log) = 3
      /\ log[1].op = "apply" /\ log[2].op = "apply" /\ log[3].op = "revert"
      /\ log[1].token # log[2].token
      /\ log[3].success )
    => files = pristine

\* C5: for a single apply batch that wrote the artifact, reverse-applying the
\* artifact to the post-apply files succeeds and reproduces the pre-apply
\* content of every file.
C5_PatchCaptureReverse ==
    ( /\ Len(log) = 1
      /\ LastEntry.op = "apply"
      /\ LastEntry.message = "Patch file saved" )
    => /\ GitApplyReverse(patch, files).returncode = 0
       /\ GitApplyReverse(patch, files).files = prevFiles

\* C8: a revert that finds no artifact says there is nothing to revert, does
\* not report a failure to its caller and touches no managed file.
C8_NoArtifactIsNoFailure ==
    ( /\ log # <<>>
      /\ LastEntry.op = "revert"
      /\ prevPatch = NoPatch )
    => /\ LastEntry.success
       /\ files = prevFiles
       /\ patch = NoPatch

\* a reverse-apply of the artifact succeeded, cleanly or by three-way merge
ReverseApplySucceeded ==
    /\ LastEntry.env.git = "ok"
    /\ \/ CheckPassed /\ LastEntry.env.apply_ok
       \/ ~CheckPassed /\ LastEntry.env.threeway = "merged"

\* C9: apply_patch_reverse reports success and deletes the artifact only if
\* a reverse-apply (clean or three-way) succeeded; in every other outcome it
\* reports failure and the artifact remains.
C9_DeletedOnlyOnRealRevert ==
    ( /\ log # <<>>
      /\ LastEntry.op = "revert"
      /\ prevPatch # NoPatch )
    => IF ReverseApplySucceeded
       THEN LastEntry.success /\ patch = NoPatch
       ELSE ~LastEntry.success /\ patch = prevPatch

\* the three-way reverse-apply of the last revert reported conflicts
ConflictReported ==
    /\ RevertRan
    /\ ~CheckPassed
    /\ LastEntry.env.threeway = "conflict"

\* C10: when the three-way reverse-apply reports conflicts, apply_patch_reverse
\* returns failure with the remediation options, the artifact stays, and the
\* working files are as the three-way run left them.
C10_MergeConflict ==
    ConflictReported
    => /\ ~LastEntry.success
       /\ LastEntry.message = ConflictMessage
       /\ patch = prevPatch
       /\ files = GitThreeWay(prevPatch, prevFiles, "conflict").files

C10_Witness ==
    /\ ConflictReported
    /\ ~LastEntry.success
    /\ patch # NoPatch
    /\ \E f \in FileSet : ConflictMarked(prevFiles[f]) = files[f] /\ files[f] # prevFiles[f]

\* the content carries a change of the engine: a guard wrap or a bypass marker
EngineChange(content) ==
    \/ Contains(content, IF_EDOG_DEVMODE)
    \/ Contains(content, op_edog_marker)
    \/ Contains(content, spark_edog_marker)

\* the run so far is made of applies and reverts only, and every external
\* command in it went through
OnlyBatchesNoFailure ==
    \A i \in 1..Len(log) :
        /\ log[i].op \in {"apply", "revert"}
        /\ log[i].op = "apply" =>
              log[i].env = [git_show_ok |-> TRUE, unreadable |-> {}, locked |-> {}]
        /\ log[i].op = "revert" => (log[i].env.git = "ok" /\ log[i].env.apply_ok)

\* C11: in every state reached by applies and reverts only (no manual edit, no
\* I/O failure), an absent artifact means that no managed file carries an
\* engine change, and a managed file that carries one means the artifact is
\* present.
C11_ArtifactIndicatesChanges ==
    OnlyBatchesNoFailure
    => /\ patch = NoPatch => \A f \in FileSet : ~EngineChange(files[f])
       /\ (\E f \in FileSet : EngineChange(files[f])) => patch # NoPatch

\* C14: check_status (and the check_smart_pattern_status calls it makes) never
\* writes, creates or deletes a managed file or the patch artifact, whatever
\* the state of the tree: applied, partially applied, not applied, anchors
\* missing.
C14_StatusReadOnly ==
    (log # <<>> /\ LastEntry.op = "status")
    => /\ files = prevFiles
       /\ patch = prevPatch

\* a status check of a partially applied tree with missing anchors
C14_Witness ==
    /\ log # <<>>
    /\ LastEntry.op = "status"
    /\ LastEntry.message = "Some EDOG changes are applied (partial state)"
    /\ check_smart_pattern_status(files["LiveTableController"],
                                  SMART_PATTERNS["permission_filter_getlatestdag"])
           = "anchor_not_found"
    /\ patch # NoPatch
    /\ files = prevFiles

\* an apply that wrote the artifact, a line appended at the end of a file the
\* apply changed, then a revert with git at hand
AppendedThenReverted ==
    /\ Len(log) = 3
    /\ log[1].op = "apply" /\ log[1].message = "Patch file saved"
    /\ log[2].op = "edit" /\ log[2].env = <<"bottom">>
    /\ log[2].message \in PatchedPaths(prevPatch)
    /\ log[3].op = "revert"
    /\ log[3].env.git = "ok" /\ log[3].env.apply_ok

\* C15: when a file was changed by apply and a line was then appended
\* elsewhere in it, revert takes out the engine's change only, keeps the
\* appended line, reports success and deletes the artifact.
C15_RevertKeepsAppendedLine ==
    AppendedThenReverted
    => /\ LastEntry.success
       /\ patch = NoPatch
       /\ files = [pristine EXCEPT ![log[2].message] = edit(@, "bottom")]

\* how check_status classifies the four wrap locations of the tree
WrapClasses(tree) ==
    smart_pattern_statuses(tree["LiveTableController"], LiveTableController_keys)
    \o smart_pattern_statuses(tree["LiveTableSchedulerRunController"],
                              LiveTableSchedulerRunController_keys)

\* C32: check_status returns True ('all applied') only if each of the six
\* managed locations is classified applied: the four wrap rules and the two
\* structural changes; a location classified anchor_not_found or
\* context_mismatch keeps it from returning True.
C32_AllAppliedMeansAll ==
    (log # <<>> /\ LastEntry.op = "status" /\ LastEntry.success)
    => /\ \A i \in 1..4 : WrapClasses(files)[i] = "applied"
       /\ Contains(files["GTSOperationManager"], op_edog_marker)
       /\ Contains(files["GTSBasedSparkClient"], spark_edog_marker)

-----------------------------------------------------------------------------
(* Claims about the batch under file-system faults, under SpecFaults *)

\* the last step was a run of apply_all_changes whose writes all went through,
\* so that the files hold the after-content the batch handed to generate_patch
AppliedAndWritten ==
    /\ log # <<>>
    /\ LastEntry.op = "apply"
    /\ LastEntry.env.locked = {}

\* the files whose content after the batch differs from their content before it
ChangedFiles == {f \in FileSet : files[f] # prevFiles[f]}

\* C12: when no file's content after the batch differs from its content before
\* the batch, generate_patch writes nothing and an artifact that already
\* exists is left as it was.
C12_NoChangeBatch ==
    (AppliedAndWritten /\ ChangedFiles = {})
    => /\ LastEntry.message = "no patch written"
       /\ patch = prevPatch

\* a second apply with the token of the first leaves the artifact of the first
C12_Witness ==
    /\ Len(log) = 2
    /\ AppliedAndWritten
    /\ log[1].token = log[2].token
    /\ ChangedFiles = {}
    /\ prevPatch # NoPatch
    /\ patch = prevPatch

\* the lines of a content as generate_patch diffs them
DiffLines(content) == EnsureNewline(splitlines(content))

\* C13: the artifact of a batch holds one entry (header pair and hunk) for
\* each file whose before-content differs from its after-content, the hunk
\* taking lines of the before-content to lines of the after-content, and
\* nothing for a file that did not change; no artifact is written when no file
\* changed.
C13_PatchHoldsChangedFiles ==
    AppliedAndWritten
    => IF LastEntry.message = "Patch file saved"
       THEN /\ PatchedPaths(patch) = ChangedFiles
            /\ Len(patch) = Cardinality(ChangedFiles)
            /\ \A i \in 1..Len(patch) :
                 LET h == patch[i].hunk
                 IN  /\ h.old # h.new
                     /\ h.old = Slice(DiffLines(prevFiles[patch[i].path]),
                                      h.start, h.start + Len(h.old))
                     /\ h.new = Slice(DiffLines(files[patch[i].path]),
                                      h.start, h.start + Len(h.new))
       ELSE ChangedFiles = {}

\* a batch of several files of which one changed: one file's hunk in the artifact
C13_Witness ==
    /\ AppliedAndWritten
    /\ Cardinality({f \in FileSet : f \notin LastEntry.env.unreadable}) >= 2
    /\ Cardinality(ChangedFiles) = 1
    /\ Len(patch) = 1
    /\ patch[1].path \in ChangedFiles

\* the statuses that stand for a change of the content
IsChange(status) == status \in {"applied", "token_updated", "applied_with_git_original"}

\* the files the last apply could read
ReadableFiles ==
    {f \in FileSet : f \notin LastEntry.env.unreadable /\ prevFiles[f] # <<>>}

\* the managed locations of a file: two wrap rules or one structural transform
LocationCount(f) ==
    IF f \in {"LiveTableController", "LiveTableSchedulerRunController"} THEN 2 ELSE 1

RECURSIVE LocationsIn(_)
LocationsIn(keys) ==
    IF keys = <<>> THEN 0
    ELSE (IF Head(keys) \in ReadableFiles THEN LocationCount(Head(keys)) ELSE 0)
         + LocationsIn(Tail(keys))

\* the statuses the last apply recorded for the locations of file FileKeys[k]
StatusesOfFile(k) ==
    LET before == LocationsIn(SubSeq(FileKeys, 1, k - 1))
    IN  Slice(LastEntry.statuses, before, before + LocationCount(FileKeys[k]))

\* C16: apply_all_changes attempts every managed location of every file it can
\* read, whatever the outcome of the others (anchor not found, context
\* mismatch, pattern not found, a file it cannot read, a file it cannot
\* write), a change at a location of a writable file is written, and the
\* artifact step runs after all of them: the artifact is written exactly when
\* some location changed.
C16_BatchNeverAborts ==
    (log # <<>> /\ LastEntry.op = "apply")
    => /\ Len(LastEntry.statuses) = LocationsIn(FileKeys)
       /\ \A k \in 1..Len(FileKeys) :
            (/\ FileKeys[k] \in ReadableFiles
             /\ FileKeys[k] \notin LastEntry.env.locked
             /\ \E i \in 1..LocationCount(FileKeys[k]) : IsChange(StatusesOfFile(k)[i]))
            => files[FileKeys[k]] # prevFiles[FileKeys[k]]
       /\ \A f \in FileSet \ ReadableFiles : files[f] = prevFiles[f]
       /\ \A f \in LastEntry.env.locked : files[f] = prevFiles[f]
       /\ (LastEntry.message = "Patch file saved")
          <=> \E i \in 1..Len(LastEntry.statuses) : IsChange(LastEntry.statuses[i])

\* a batch with a warning at the first file, a locked file and a change written
\* at a later location, the artifact written
C16_Witness ==
    /\ log # <<>> /\ LastEntry.op = "apply"
    /\ IsWarning(LastEntry.statuses[2])
    /\ LastEntry.env.locked = {"GTSOperationManager"}
    /\ Len(LastEntry.statuses) = 6
    /\ LastEntry.statuses[4] = "applied"
    /\ files["LiveTableSchedulerRunController"] # prevFiles["LiveTableSchedulerRunController"]
    /\ IsWarning(LastEntry.statuses[6])
    /\ LastEntry.message = "Patch file saved"
    /\ ~LastEntry.success

\* the content has no method the bypass can replace: the signature is absent,
\* or no "{" follows it, or the depth of the braces after that "{" never
\* returns to zero before the end of the content
NoMethodToReplace(content) ==
    LET sig == find(content, method_sig, 0)
        brace == find(content, <<"{">>, sig)
        depth(k) == 1 + Cardinality({j \in (brace + 2)..k : content[j] = "{"})
                      - Cardinality({j \in (brace + 2)..k : content[j] = "}"})
    IN  \/ sig = -1
        \/ brace = -1
        \/ \A k \in (brace + 2)..Len(content) : depth(k) # 0

\* the last step was an apply that could read GTSBasedSparkClient and found
\* no method to replace in it
SparkMethodMissing ==
    /\ log # <<>>
    /\ LastEntry.op = "apply"
    /\ "GTSBasedSparkClient" \in ReadableFiles
    /\ NoMethodToReplace(prevFiles["GTSBasedSparkClient"])

\* the transform answered pattern_not_found, the file is as it was, and
\* apply_all_changes recorded a warning and returned False
PatternNotFoundSurfaced ==
    /\ StatusesOfFile(4) = <<"pattern_not_found">>
    /\ files["GTSBasedSparkClient"] = prevFiles["GTSBasedSparkClient"]
    /\ \E i \in 1..Len(LastEntry.statuses) : IsWarning(LastEntry.statuses[i])
    /\ ~LastEntry.success

C34_ArtifactMatchesDisk ==
    (log # <<>> /\ LastEntry.op = "apply" /\ LastEntry.message = "Patch file saved")
    => /\ \A i \in 1..Len(patch) :
            LET h == patch[i].hunk
                on_disk == DiffLines(files[patch[i].path])
            IN  /\ h.start + Len(h.new) <= Len(on_disk)
                /\ h.new = Slice(on_disk, h.start, h.start + Len(h.new))
       /\ PatchedPaths(patch) \cap LastEntry.env.locked = {}

\* C35: apply_all_changes returns True only if it read every managed file and
\* each of the six locations ended applied (from the embedded or the git
\* original), already_applied or token_updated, with the file of every
\* changed location written.
C35_SuccessSignal ==
    (log # <<>> /\ LastEntry.op = "apply" /\ LastEntry.success)
    => /\ LastEntry.env.unreadable = {}
       /\ Len(LastEntry.statuses) = 6
       /\ \A i \in 1..Len(LastEntry.statuses) :
            IsChange(LastEntry.statuses[i]) \/ LastEntry.statuses[i] = "already_applied"
       /\ \A k \in 1..Len(FileKeys) :
            (\E i \in 1..Len(StatusesOfFile(k)) : IsChange(StatusesOfFile(k)[i]))
            => FileKeys[k] \notin LastEntry.env.locked

-----------------------------------------------------------------------------
(* Claims about the batch calls as a process, under SpecProc *)

\* the process waits on an external command: the call it is in goes on only
\* when the command returns or is killed at its timeout
Waiting == proc # Idle /\ proc.command # NoCommand

\* C23: every git command an apply, a revert or a status waits on was started
\* with a timeout, so that the call comes to its end (with a failure it
\* recovers from) even when the command never returns.
C23_CommandsHaveTimeout == Waiting => proc.command.timeout > 0


\* an apply_all_changes was cut short by the exit of the process after it had
\* rewritten some file and before it wrote the artifact; then a fresh process
\* ran apply_all_changes to its end, and then revert_all_changes
InterruptedThenResumed ==
    /\ proc = Idle
    /\ Len(log) = 3
    /\ log[1].op = "exit" /\ log[1].message = "apply" /\ log[1].written # {}
    /\ log[2].op = "apply"
    /\ log[3].op = "revert"

\* C24: when the process exits during apply_all_changes after some managed
\* file was rewritten and before the artifact is written, a fresh process
\* that runs apply_all_changes and then a successful revert_all_changes
\* leaves every managed file with its original content.
C24_ResumeAfterInterruption ==
    (InterruptedThenResumed /\ log[3].success) => files = pristine

-----------------------------------------------------------------------------
(* Claims about the daemon, under SpecDaemon *)

\* the entries of the log with the given op
EntriesOf(op) == {i \in 1..Len(log) : log[i].op = op}

\* run_daemon is over
ShutdownEnded == proc # Idle /\ proc.pc \in {"done", "exited"}

\* the handler is at, or past, its revert, and before that it has turned to
\* the service whenever service_process was set at the interrupt
StoppedBeforeRevert ==
    (proc # Idle /\ proc.pc \in {"revert", "done"}) =>
        \A i \in EntriesOf("interrupt") :
            log[i].message # "none" =>
                /\ \E s \in EntriesOf("stop") : s > i /\ \A r \in EntriesOf("revert") : s < r
                /\ proc.service_process = "running" =>
                       \E s \in EntriesOf("stop") : ~log[s].success

-----------------------------------------------------------------------------
(* Claims about the token cache, under SpecCache *)

\* the file holds the token t cached with the expiry e
Holds(file, e, t) == file = File(b64encode(<<format_float(e), "|">> \o t))

\* the file is there and holds no token cached with an expiry
Corrupt(file) ==
    file # NoFile /\ \A e \in Expiries, t \in CacheTokens : ~Holds(file, e, t)

\* the calls of load_cached_token made so far
Loads == {n \in 1..Len(hist) : hist[n].op = "load_cached_token"}

\* a call that returned a token found the file holding that token with an
\* expiry more than 300 seconds after the time of the call
TokenOnlyIfValid(n) ==
    hist[n].result.found =>
        \E e \in Expiries, t \in CacheTokens :
            /\ Holds(hist[n].before, e, t)
            /\ e - hist[n].at > 300
            /\ hist[n].result.token = t /\ hist[n].result.expiry = e
            /\ hist[n].after = hist[n].before

\* the file the call found was corrupt, or held a token within 300 seconds of
\* its expiry or past it
Stale(n) ==
    \/ Corrupt(hist[n].before)
    \/ \E e \in Expiries, t \in CacheTokens :
          Holds(hist[n].before, e, t) /\ e - hist[n].at <= 300

\* C37 as stated: load_cached_token returns a token only if the time is more
\* than 300 seconds before the cached expiry; on a cache that is within 300
\* seconds of expiry, expired or corrupt it returns (None, None) and the
\* cache file does not exist afterwards.
C37_StaleCacheIsGone ==
    \A n \in Loads :
        /\ TokenOnlyIfValid(n)
        /\ Stale(n) => (~hist[n].result.found /\ hist[n].after = NoFile)

\* C37: load_cached_token returns a token only if the time is more than 300
\* seconds before the cached expiry; on a cache that is within 300 seconds of
\* expiry, expired or corrupt it returns (None, None), and the cache file
\* does not exist afterwards if it could be deleted: when it cannot be
\* deleted the call still returns (None, None) and the file stays as it was.
C37_TokenCacheValidity ==
    \A n \in Loads :
        /\ TokenOnlyIfValid(n)
        /\ Stale(n) =>
              /\ ~hist[n].result.found
              /\ hist[n].unlink_ok => hist[n].after = NoFile
              /\ ~hist[n].unlink_ok => hist[n].after = hist[n].before

\* a token cached with expiry 400 was refused at time 100, exactly 300
\* seconds before its expiry, and the file was deleted
C37_Witness ==
    /\ Len(hist) = 2
    /\ hist[1].op = "cache_token"
    /\ hist[2].op = "load_cached_token"
    /\ Holds(hist[2].before, 400, <<"t", "|", "2">>)
    /\ hist[2].at = 100
    /\ ~hist[2].result.found
    /\ cache = NoFile

====
